---- MODULE Spec2Model ----
(***************************************************************************)
(* A model of the kpea cpio library: the fixed-width field codec (io.rs),  *)
(* the header codec (metadata.rs), the archive builder (builder.rs) and    *)
(* the archive reader and unpacker (archive.rs).                           *)
(*                                                                         *)
(* Numbers.  The program's u16/u32/u64 values are modelled as bit vectors  *)
(* (sequences of 0/1, least significant bit first) of the type's width, so *)
(* that 32-bit and 64-bit values keep their full range.  Bytes of streams  *)
(* are naturals in 0..255.                                                 *)
(***************************************************************************)
EXTENDS Naturals, Sequences, FiniteSets, TLC

(***************************************************************************)
(* constants.rs                                                            *)
(***************************************************************************)
NEWC_HEADER_LEN == 110
NEWC_ALIGN == 4
BIN_ALIGN == 2
MAGIC_LEN == 6
BIN_MAGIC_LEN == 2
\* b"070707", b"070701", b"070702"
ODC_MAGIC == <<48, 55, 48, 55, 48, 55>>
NEWC_MAGIC == <<48, 55, 48, 55, 48, 49>>
CRC_MAGIC == <<48, 55, 48, 55, 48, 50>>
\* 0o070707 = 0x71C7 as u16, little- and big-endian
BIN_LE_MAGIC == <<199, 113>>
BIN_BE_MAGIC == <<113, 199>>
\* c"TRAILER!!!" without its NUL
TRAILER == <<84, 82, 65, 73, 76, 69, 82, 33, 33, 33>>

(***************************************************************************)
(* Bit vectors                                                             *)
(***************************************************************************)
\* The w-bit vector of a natural n < 2^31.
Bits(n, w) == [i \in 1..w |-> IF i > 31 THEN 0 ELSE (n \div (2 ^ (i - 1))) % 2]

\* The natural a bit vector stands for (used only where it is below 2^31).
RECURSIVE Val(_)
Val(b) == IF b = <<>> THEN 0 ELSE Head(b) + 2 * Val(Tail(b))

\* Bit i (0-based) of b, 0 beyond its width.
BitAt(b, i) == IF i + 1 <= Len(b) THEN b[i + 1] ELSE 0

\* `value as uN` / zero extension: the low w bits, zero-filled.
Cast(b, w) == [i \in 1..w |-> BitAt(b, i - 1)]

\* value <= 2^w - 1
Fits(b, w) == \A i \in 1..Len(b) : i > w => b[i] = 0

IsZero(b) == \A i \in 1..Len(b) : b[i] = 0

\* b = 2^w - 1 exactly
IsMax(b, w) == \A i \in 1..Len(b) : b[i] = (IF i <= w THEN 1 ELSE 0)

\* The g-bit digit number k (0 = least significant) of b.
Digit(b, k, g) ==
    LET RECURSIVE D(_)
        D(j) == IF j = g THEN 0 ELSE BitAt(b, k * g + j) * (2 ^ j) + D(j + 1)
    IN D(0)

\* The u32/u64 sums and ordinary constants the model needs.
U16(n) == Bits(n, 16)
U32(n) == Bits(n, 32)
U64(n) == Bits(n, 64)
\* 2^k as a w-bit vector
Pow2Bits(k, w) == [i \in 1..w |-> IF i = k + 1 THEN 1 ELSE 0]
\* 2^k - 1 as a w-bit vector
MaxBits(k, w) == [i \in 1..w |-> IF i <= k THEN 1 ELSE 0]

\* Max. 6-character octal number, 11-character octal number, 8-character
\* hexadecimal number (constants.rs), as widths in bits.
MAX_6_BITS == 18
MAX_11_BITS == 33
MAX_8_BITS == 32

(***************************************************************************)
(* io.rs: fixed-width fields.  A write yields [ok, out]: the bytes put on  *)
(* the writer and whether the call returned Ok.  A read takes the stream s *)
(* and the position p (bytes already consumed) and yields [ok, val, pos].  *)
(***************************************************************************)
Ok(bytes) == [ok |-> TRUE, out |-> bytes]
Err(bytes) == [ok |-> FALSE, out |-> bytes]

\* format!("{:o}") / format!("{:x}"): one ASCII digit, lower case
DigitChar(d) == IF d < 10 THEN 48 + d ELSE 87 + d

\* char::to_digit(radix) as used by from_str_radix: 99 stands for "no digit"
HexVal(c) ==
    IF c >= 48 /\ c <= 57 THEN c - 48
    ELSE IF c >= 97 /\ c <= 102 THEN c - 87
    ELSE IF c >= 65 /\ c <= 70 THEN c - 55
    ELSE 99

OctVal(c) == IF c >= 48 /\ c <= 55 THEN c - 48 ELSE 99

DigitVal(c, g) == IF g = 3 THEN OctVal(c) ELSE HexVal(c)

\* format!("{:0n$o}") / format!("{:0n$x}"): n digits, most significant first
FormatRadix(b, n, g) == [d \in 1..n |-> DigitChar(Digit(b, n - d, g))]

\* uN::from_str_radix(s, 2^g) on a field of bytes: an optional leading '+'
\* is accepted, every other byte must be a digit of the radix
FromStrRadix(buf, g, w) ==
    LET digits == IF Len(buf) > 1 /\ buf[1] = 43 THEN Tail(buf) ELSE buf
        n == Len(digits)
        good == n > 0 /\ \A i \in 1..n : DigitVal(digits[i], g) # 99
    IN  [ok |-> good,
         val |-> IF good
                 THEN [i \in 1..w |->
                         LET k == (i - 1) \div g
                         IN  IF k >= n THEN 0
                             ELSE (DigitVal(digits[n - k], g) \div (2 ^ ((i - 1) % g))) % 2]
                 ELSE Bits(0, w)]

\* Read::read_exact of n bytes
ReadExact(s, p, n) ==
    IF p + n <= Len(s)
    THEN [ok |-> TRUE, val |-> SubSeq(s, p + 1, p + n), pos |-> p + n]
    ELSE [ok |-> FALSE, val |-> <<>>, pos |-> Len(s)]

ReadRadix(s, p, n, g, w) ==
    LET r == ReadExact(s, p, n)
        v == FromStrRadix(r.val, g, w)
    IN  IF ~r.ok THEN [ok |-> FALSE, val |-> Bits(0, w), pos |-> r.pos]
        ELSE [ok |-> v.ok, val |-> v.val, pos |-> r.pos]

read_octal_6(s, p) == ReadRadix(s, p, 6, 3, 32)

write_octal_6(value) ==
    IF ~Fits(value, MAX_6_BITS) THEN Err(<<>>) ELSE Ok(FormatRadix(value, 6, 3))

read_hex_8(s, p) == ReadRadix(s, p, 8, 4, 32)

write_hex_8(value) == Ok(FormatRadix(value, 8, 4))

read_octal_11(s, p) == ReadRadix(s, p, 11, 3, 64)

write_octal_11(value) ==
    IF ~Fits(value, MAX_11_BITS) THEN Err(<<>>) ELSE Ok(FormatRadix(value, 11, 3))

read_binary_u16_le(s, p) ==
    LET r == ReadExact(s, p, 2)
    IN  [ok |-> r.ok, pos |-> r.pos,
         val |-> IF r.ok THEN Bits(r.val[1], 8) \o Bits(r.val[2], 8) ELSE U16(0)]

write_binary_u16_le(value) == Ok(<<Digit(value, 0, 8), Digit(value, 1, 8)>>)

\* A read_binary_u16_be that takes the first byte as the low one.
read_binary_u16_be_low_first(s, p) == read_binary_u16_le(s, p)

read_binary_u16_be(s, p) ==
    LET r == ReadExact(s, p, 2)
    IN  [ok |-> r.ok, pos |-> r.pos,
         val |-> IF r.ok THEN Bits(r.val[2], 8) \o Bits(r.val[1], 8) ELSE U16(0)]

write_binary_u16_be(value) == Ok(<<Digit(value, 1, 8), Digit(value, 0, 8)>>)

\* The 32-bit integers are stored most significant 16-bit word first.
read_binary_u32_le(s, p) ==
    LET high == read_binary_u16_le(s, p)
        low == read_binary_u16_le(s, high.pos)
    IN  IF ~high.ok THEN [ok |-> FALSE, val |-> U32(0), pos |-> high.pos]
        ELSE [ok |-> low.ok, pos |-> low.pos,
              val |-> IF low.ok THEN low.val \o high.val ELSE U32(0)]

\* A write_binary_u32_le that puts the low 16-bit word first.
write_binary_u32_le_low_first(value) ==
    LET high == SubSeq(value, 17, 32)
        low == SubSeq(value, 1, 16)
    IN  Ok(write_binary_u16_le(low).out \o write_binary_u16_le(high).out)

write_binary_u32_le(value) ==
    LET high == SubSeq(value, 17, 32)
        low == SubSeq(value, 1, 16)
    IN  Ok(write_binary_u16_le(high).out \o write_binary_u16_le(low).out)

\* A read_binary_u32_be that takes the first 16-bit word for the low one.
read_binary_u32_be_low_first(s, p) ==
    LET low == read_binary_u16_be(s, p)
        high == read_binary_u16_be(s, low.pos)
    IN  IF ~low.ok THEN [ok |-> FALSE, val |-> U32(0), pos |-> low.pos]
        ELSE [ok |-> high.ok, pos |-> high.pos,
              val |-> IF high.ok THEN low.val \o high.val ELSE U32(0)]

read_binary_u32_be(s, p) ==
    LET high == read_binary_u16_be(s, p)
        low == read_binary_u16_be(s, high.pos)
    IN  IF ~high.ok THEN [ok |-> FALSE, val |-> U32(0), pos |-> high.pos]
        ELSE [ok |-> low.ok, pos |-> low.pos,
              val |-> IF low.ok THEN low.val \o high.val ELSE U32(0)]

write_binary_u32_be(value) ==
    LET high == SubSeq(value, 17, 32)
        low == SubSeq(value, 1, 16)
    IN  Ok(write_binary_u16_be(high).out \o write_binary_u16_be(low).out)


(***************************************************************************)
(* io.rs: padding.  Formats are "BinLE", "BinBE", "Odc", "Newc", "Crc".    *)
(***************************************************************************)
Formats == {"BinLE", "BinBE", "Odc", "Newc", "Crc"}
IsNewcLike(format) == format \in {"Newc", "Crc"}
IsBin(format) == format \in {"BinLE", "BinBE"}

Zeros(n) == [i \in 1..n |-> 0]

\* write_padding_newc / read_padding: bytes up to the next multiple of 4
PaddingNewc(len) ==
    LET remainder == len % NEWC_ALIGN
    IN  IF remainder # 0 THEN NEWC_ALIGN - remainder ELSE 0

\* write_padding_bin / read_padding_bin: one byte when the length is odd
PaddingBin(len) ==
    LET remainder == len % BIN_ALIGN
    IN  IF remainder # 0 THEN 1 ELSE 0

\* A write_path_padding that aligns the name alone in newc and crc.
write_path_padding_name_only(len, format) ==
    IF IsNewcLike(format) THEN Zeros(PaddingNewc(len))
    ELSE IF IsBin(format) THEN Zeros(PaddingBin(len))
    ELSE <<>>

write_path_padding(len, format) ==
    IF IsNewcLike(format) THEN Zeros(PaddingNewc(NEWC_HEADER_LEN + len))
    ELSE IF IsBin(format) THEN Zeros(PaddingBin(len))
    ELSE <<>>

write_file_padding(file_size, format) ==
    IF IsNewcLike(format) THEN Zeros(PaddingNewc(file_size))
    ELSE IF IsBin(format) THEN Zeros(PaddingBin(file_size))
    ELSE <<>>

\* The number of bytes read_path_padding / read_file_padding consume
\* (read_exact: an error when the stream ends first).
ReadPathPaddingLen(len, format) ==
    IF IsNewcLike(format) THEN PaddingNewc(NEWC_HEADER_LEN + len)
    ELSE IF IsBin(format) THEN PaddingBin(len)
    ELSE 0

ReadFilePaddingLen(len, format) ==
    IF IsNewcLike(format) THEN PaddingNewc(len)
    ELSE IF IsBin(format) THEN PaddingBin(len)
    ELSE 0

read_path_padding(s, p, len, format) == ReadExact(s, p, ReadPathPaddingLen(len, format))

read_file_padding(s, p, len, format) == ReadExact(s, p, ReadFilePaddingLen(len, format))

\* write_path: the path's bytes, one NUL, the name padding
write_path(value, format) ==
    value \o <<0>> \o write_path_padding(Len(value) + 1, format)

\* A write_path_c_str that writes no name padding.
write_path_c_str_unpadded(value, format) == value \o <<0>>

\* write_path_c_str: the C string with its NUL, the name padding
write_path_c_str(value, format) ==
    value \o <<0>> \o write_path_padding(Len(value) + 1, format)

\* read_path_buf: len bytes that must be a C string with exactly one NUL, the
\* last byte (CStr::from_bytes_with_nul), then the name padding
read_path_buf(s, p, len, format) ==
    LET buf == ReadExact(s, p, len)
        cstr == /\ buf.ok
                /\ len >= 1
                /\ buf.val[len] = 0
                /\ \A i \in 1..(len - 1) : buf.val[i] # 0
        pad == read_path_padding(s, buf.pos, len, format)
    IN  IF ~cstr THEN [ok |-> FALSE, val |-> <<>>, pos |-> buf.pos]
        ELSE [ok |-> pad.ok, val |-> SubSeq(buf.val, 1, len - 1), pos |-> pad.pos]

(***************************************************************************)
(* dev.rs (the musl formulas; libc's major/minor/makedev used by           *)
(* metadata.rs compute the same)                                           *)
(***************************************************************************)
\* ((dev >> 32) & 0xfffff000) | ((dev >> 8) & 0x00000fff)
major(dev) == [i \in 1..32 |-> IF i <= 12 THEN BitAt(dev, i - 1 + 8) ELSE BitAt(dev, i - 1 + 32)]

\* A minor of 20 bits: ((dev >> 12) & 0x000fff00) | (dev & 0x000000ff)
minor_20_bits(dev) ==
    [i \in 1..32 |-> IF i <= 8 THEN BitAt(dev, i - 1)
                     ELSE IF i <= 20 THEN BitAt(dev, i - 1 + 12) ELSE 0]

\* ((dev >> 12) & 0xffffff00) | (dev & 0x000000ff)
minor(dev) == [i \in 1..32 |-> IF i <= 8 THEN BitAt(dev, i - 1) ELSE BitAt(dev, i - 1 + 12)]

\* ((major & 0xfffff000) << 32) | ((major & 0xfff) << 8)
\*   | ((minor & 0xffffff00) << 12) | (minor & 0xff)
makedev(mj, mn) ==
    [i \in 1..64 |->
        IF i <= 8 THEN BitAt(mn, i - 1)
        ELSE IF i <= 20 THEN BitAt(mj, i - 1 - 8)
        ELSE IF i <= 44 THEN BitAt(mn, i - 1 - 12)
        ELSE BitAt(mj, i - 1 - 32)]

(***************************************************************************)
(* crc.rs                                                                  *)
(***************************************************************************)
\* CrcWriter: the running sum of the bytes written (wrapping usize
\* additions), and sum(): its low 32 bits.  The payloads of the model are
\* far too short for the sum to wrap.
RECURSIVE ByteSum(_)
ByteSum(bytes) == IF bytes = <<>> THEN 0 ELSE Head(bytes) + ByteSum(Tail(bytes))

CrcSum(bytes) == Cast(U64(ByteSum(bytes)), 32)

(***************************************************************************)
(* file_type.rs                                                            *)
(***************************************************************************)
\* ((mode & FILE_TYPE_MASK) >> 12) as u8
mode_to_file_type(mode) == Digit(mode, 4, 3) + 8 * BitAt(mode, 15)

\* FileType::new: "Invalid" stands for Err(InvalidData)
FileTypeNew(mode) ==
    LET t == mode_to_file_type(mode)
    IN  IF t = 12 THEN "Socket"
        ELSE IF t = 10 THEN "Symlink"
        ELSE IF t = 8 THEN "Regular"
        ELSE IF t = 6 THEN "BlockDevice"
        ELSE IF t = 4 THEN "Directory"
        ELSE IF t = 2 THEN "CharDevice"
        ELSE IF t = 1 THEN "Fifo"
        ELSE "Invalid"

\* mode & FILE_MODE_MASK (0o007777), as a natural
file_mode(mode) == Val(SubSeq(mode, 1, 12))

is_file(md) == mode_to_file_type(md.mode) = 8

(***************************************************************************)
(* metadata.rs                                                             *)
(***************************************************************************)
\* struct Metadata: dev, ino, rdev, mtime, file_size are u64; mode, uid,
\* gid, nlink, name_len, check are u32
MetadataOf(dev, ino, mode, uid, gid, nlink, rdev, mtime, name_len, file_size, check) ==
    [dev |-> dev, ino |-> ino, mode |-> mode, uid |-> uid, gid |-> gid,
     nlink |-> nlink, rdev |-> rdev, mtime |-> mtime, name_len |-> name_len,
     file_size |-> file_size, check |-> check]

\* Metadata::id: containing device ID + inode
MetadataId(md) == <<md.dev, md.ino>>

zero_on_overflow(value, max_bits) == IF ~Fits(value, max_bits) THEN Bits(0, Len(value)) ELSE value

\* A sequence of writes each ended by `?`: the bytes of the writes before the
\* first failing one reach the writer, and the first failure is returned.
Chain(rs) ==
    LET bad == {i \in 1..Len(rs) : ~rs[i].ok}
        stop == IF bad = {} THEN Len(rs)
                ELSE (CHOOSE i \in bad : \A j \in bad : i <= j) - 1
        RECURSIVE Cat(_)
        Cat(i) == IF i > stop THEN <<>> ELSE rs[i].out \o Cat(i + 1)
    IN  [ok |-> bad = {}, out |-> Cat(1)]

\* value.try_into::<uN>().map_err(InvalidData)? followed by the write
TryInto(value, w, written) == IF Fits(value, w) THEN written ELSE Err(<<>>)

\* dev64_to_dev16 in write_bin: major and minor must each fit 8 bits
dev64_to_dev16(dev) ==
    LET mj == major(dev)
        mn == minor(dev)
    IN  [ok |-> Fits(mj, 8) /\ Fits(mn, 8),
         val |-> SubSeq(mn, 1, 8) \o SubSeq(mj, 1, 8)]

write_bin(md, le) ==
    LET w16(v) == IF le THEN write_binary_u16_le(v) ELSE write_binary_u16_be(v)
        w32(v) == IF le THEN write_binary_u32_le(v) ELSE write_binary_u32_be(v)
        dev16(d) == IF dev64_to_dev16(d).ok THEN w16(dev64_to_dev16(d).val) ELSE Err(<<>>)
    IN  Chain(<<Ok(IF le THEN BIN_LE_MAGIC ELSE BIN_BE_MAGIC),
                dev16(md.dev),
                TryInto(md.ino, 16, w16(Cast(md.ino, 16))),
                TryInto(md.mode, 16, w16(Cast(md.mode, 16))),
                TryInto(md.uid, 16, w16(Cast(md.uid, 16))),
                TryInto(md.gid, 16, w16(Cast(md.gid, 16))),
                TryInto(md.nlink, 16, w16(Cast(md.nlink, 16))),
                dev16(md.rdev),
                TryInto(md.mtime, 32, w32(Cast(md.mtime, 32))),
                TryInto(md.name_len, 16, w16(Cast(md.name_len, 16))),
                TryInto(md.file_size, 32, w32(Cast(md.file_size, 32)))>>)

write_odc(md) ==
    Chain(<<Ok(ODC_MAGIC),
            TryInto(md.dev, 32, write_octal_6(Cast(md.dev, 32))),
            TryInto(md.ino, 32, write_octal_6(Cast(md.ino, 32))),
            write_octal_6(md.mode),
            write_octal_6(md.uid),
            write_octal_6(md.gid),
            write_octal_6(md.nlink),
            TryInto(md.rdev, 32, write_octal_6(Cast(md.rdev, 32))),
            write_octal_11(zero_on_overflow(md.mtime, MAX_11_BITS)),
            write_octal_6(md.name_len),
            write_octal_11(md.file_size)>>)

write_newc(md, magic) ==
    Chain(<<Ok(magic),
            TryInto(md.ino, 32, write_hex_8(Cast(md.ino, 32))),
            write_hex_8(md.mode),
            write_hex_8(md.uid),
            write_hex_8(md.gid),
            write_hex_8(md.nlink),
            write_hex_8(Cast(zero_on_overflow(md.mtime, MAX_8_BITS), 32)),
            TryInto(md.file_size, 32, write_hex_8(Cast(md.file_size, 32))),
            write_hex_8(major(md.dev)),
            write_hex_8(minor(md.dev)),
            write_hex_8(major(md.rdev)),
            write_hex_8(minor(md.rdev)),
            write_hex_8(md.name_len),
            write_hex_8(md.check)>>)

\* Metadata::write
MetadataWrite(md, format) ==
    IF IsBin(format) THEN write_bin(md, format = "BinLE")
    ELSE IF format = "Odc" THEN write_odc(md)
    ELSE write_newc(md, IF format = "Newc" THEN NEWC_MAGIC ELSE CRC_MAGIC)

\* A header read yields [ok, md, pos].
NoMetadata ==
    MetadataOf(U64(0), U64(0), U32(0), U32(0), U32(0), U32(0), U64(0), U64(0),
               U32(0), U64(0), U32(0))

\* The result of a header read whose fields (each an [ok, val, pos], read
\* one after the other with `?`) are all: the first failure, or md.
HeaderOf(all, md) ==
    LET bad == {i \in 1..Len(all) : ~all[i].ok}
    IN  IF bad # {}
        THEN [ok |-> FALSE, md |-> NoMetadata,
              pos |-> all[CHOOSE i \in bad : \A j \in bad : i <= j].pos]
        ELSE [ok |-> TRUE, md |-> md, pos |-> all[Len(all)].pos]

\* The fields have fixed widths, so each starts where the one before it
\* ends when that one was read.
read_bin(s, p, le) ==
    LET r16(q) == IF le THEN read_binary_u16_le(s, q) ELSE read_binary_u16_be(s, q)
        r32(q) == IF le THEN read_binary_u32_le(s, q) ELSE read_binary_u32_be(s, q)
        \* makedev((v >> 8) & 0xff, v & 0xff)
        dev16(v) == makedev(SubSeq(v, 9, 16), SubSeq(v, 1, 8))
        header(dev, ino, mode, uid, gid, nlink, majmin, mtime, name_len, file_size) ==
            HeaderOf(<<dev, ino, mode, uid, gid, nlink, majmin, mtime, name_len, file_size>>,
                     MetadataOf(dev16(dev.val), Cast(ino.val, 64), Cast(mode.val, 32),
                                Cast(uid.val, 32), Cast(gid.val, 32), Cast(nlink.val, 32),
                                dev16(majmin.val), Cast(mtime.val, 64),
                                Cast(name_len.val, 32), Cast(file_size.val, 64), U32(0)))
    IN  header(r16(p), r16(p + 2), r16(p + 4), r16(p + 6), r16(p + 8), r16(p + 10),
               r16(p + 12), r32(p + 14), r16(p + 18), r32(p + 20))

read_odc(s, p) ==
    LET header(dev, ino, mode, uid, gid, nlink, rdev, mtime, name_len, file_size) ==
            HeaderOf(<<dev, ino, mode, uid, gid, nlink, rdev, mtime, name_len, file_size>>,
                     MetadataOf(Cast(dev.val, 64), Cast(ino.val, 64), mode.val, uid.val,
                                gid.val, nlink.val, Cast(rdev.val, 64), mtime.val,
                                name_len.val, file_size.val, U32(0)))
    IN  header(read_octal_6(s, p), read_octal_6(s, p + 6), read_octal_6(s, p + 12),
               read_octal_6(s, p + 18), read_octal_6(s, p + 24), read_octal_6(s, p + 30),
               read_octal_6(s, p + 36), read_octal_11(s, p + 42), read_octal_6(s, p + 53),
               read_octal_11(s, p + 59))

read_newc(s, p) ==
    LET header(ino, mode, uid, gid, nlink, mtime, file_size, dev_major, dev_minor,
               rdev_major, rdev_minor, name_len, check) ==
            HeaderOf(<<ino, mode, uid, gid, nlink, mtime, file_size, dev_major, dev_minor,
                       rdev_major, rdev_minor, name_len, check>>,
                     MetadataOf(makedev(dev_major.val, dev_minor.val), Cast(ino.val, 64),
                                mode.val, uid.val, gid.val, nlink.val,
                                makedev(rdev_major.val, rdev_minor.val),
                                Cast(mtime.val, 64), name_len.val,
                                Cast(file_size.val, 64), check.val))
    IN  header(read_hex_8(s, p), read_hex_8(s, p + 8), read_hex_8(s, p + 16),
               read_hex_8(s, p + 24), read_hex_8(s, p + 32), read_hex_8(s, p + 40),
               read_hex_8(s, p + 48), read_hex_8(s, p + 56), read_hex_8(s, p + 64),
               read_hex_8(s, p + 72), read_hex_8(s, p + 80), read_hex_8(s, p + 88),
               read_hex_8(s, p + 96))

\* Read::read into a buffer of n bytes, for a reader that hands out what it
\* holds (a slice, a file): min(n, bytes left)
ReadUpTo(s, p, n) ==
    LET k == IF p + n <= Len(s) THEN n ELSE Len(s) - p
    IN  [n |-> k, val |-> SubSeq(s, p + 1, p + k), pos |-> p + k]

do_read(s, p, format) ==
    IF IsBin(format) THEN read_bin(s, p, format = "BinLE")
    ELSE IF format = "Odc" THEN read_odc(s, p)
    ELSE read_newc(s, p)

\* Metadata::read_some yields [kind, md, format, pos]: kind "none" is
\* Ok(None), "err" an Err, "some" Ok(Some((metadata, format)))
read_some(s, p) ==
    LET m2 == ReadUpTo(s, p, BIN_MAGIC_LEN)
        m4 == ReadUpTo(s, m2.pos, MAGIC_LEN - BIN_MAGIC_LEN)
        magic == m2.val \o m4.val
        none(q) == [kind |-> "none", md |-> NoMetadata, format |-> "Newc", pos |-> q]
        err(q) == [kind |-> "err", md |-> NoMetadata, format |-> "Newc", pos |-> q]
        \* the format the magic announces, "" when there is none
        format == IF m2.val = BIN_LE_MAGIC THEN "BinLE"
                  ELSE IF m2.val = BIN_BE_MAGIC THEN "BinBE"
                  ELSE IF m4.n # MAGIC_LEN - BIN_MAGIC_LEN THEN ""
                  ELSE IF magic = ODC_MAGIC THEN "Odc"
                  ELSE IF magic = NEWC_MAGIC THEN "Newc"
                  ELSE IF magic = CRC_MAGIC THEN "Crc"
                  ELSE ""
        header(r) ==
            IF r.ok THEN [kind |-> "some", md |-> r.md, format |-> format, pos |-> r.pos]
            ELSE err(r.pos)
    IN  IF m2.n # BIN_MAGIC_LEN THEN none(m2.pos)
        ELSE IF IsBin(format) THEN header(do_read(s, m2.pos, format))
        ELSE IF m4.n # MAGIC_LEN - BIN_MAGIC_LEN THEN none(m4.pos)
        ELSE IF format # "" THEN header(do_read(s, m4.pos, format))
        ELSE err(m4.pos)

(***************************************************************************)
(* builder.rs.  A builder is a record [writer, max_inode, max_dev, format, *)
(* inodes, devices]: inodes maps a MetadataId to <<inode, check>>, devices *)
(* a long device id to a short one.  The counters are naturals: the model  *)
(* never assigns enough numbers for a u32 or a u16 to wrap.                *)
(***************************************************************************)
\* Builder::with_metadata_editor
DoNotEditMetadata == [kind |-> "DoNotEditMetadata", calls |-> <<>>]

\* Builder::with_metadata_editor
with_metadata_editor(metadata_editor) ==
    [writer |-> <<>>, max_inode |-> 0, max_dev |-> 0, format |-> "Newc",
     inodes |-> <<>>, devices |-> <<>>, metadata_editor |-> metadata_editor]

\* Builder::new
BuilderNew == with_metadata_editor(DoNotEditMetadata)

\* An empty map is the function with the empty domain; Put adds or replaces.
Put(map, k, v) == [x \in (DOMAIN map) \cup {k} |-> IF x = k THEN v ELSE map[x]]

\* The metadata editors: DoNotEditMetadata, one that sets the owner to root,
\* and one that returns an error.  The last two keep the calls made to them:
\* the Metadata handed in and `at`, the number of bytes on the writer then.
Editors == {"DoNotEditMetadata", "SetOwner", "Refuse"}

\* An edit_metadata that hands back the Metadata it was given.
edit_metadata_unchanged(editor, md, at) ==
    IF editor.kind = "DoNotEditMetadata" THEN [ok |-> TRUE, md |-> md, editor |-> editor]
    ELSE [ok |-> editor.kind # "Refuse", md |-> md,
          editor |-> [editor EXCEPT !.calls = Append(@, [md |-> md, at |-> at])]]

\* EditMetadata::edit_metadata yields [ok, md, editor]
edit_metadata(editor, md, at) ==
    IF editor.kind = "DoNotEditMetadata" THEN [ok |-> TRUE, md |-> md, editor |-> editor]
    ELSE [ok |-> editor.kind # "Refuse",
          md |-> IF editor.kind = "SetOwner"
                 THEN [md EXCEPT !.uid = U32(0), !.gid = U32(0)] ELSE md,
          editor |-> [editor EXCEPT !.calls = Append(@, [md |-> md, at |-> at])]]

\* A remap_device_id that hands out a short id without advancing max_dev.
remap_device_id_same_number(b, md) ==
    IF b.format \in {"Odc", "BinLE", "BinBE"}
    THEN IF md.dev \in DOMAIN b.devices
         THEN [b |-> b, md |-> [md EXCEPT !.dev = U64(b.devices[md.dev])]]
         ELSE [b |-> [b EXCEPT !.devices = Put(b.devices, md.dev, b.max_dev)],
               md |-> [md EXCEPT !.dev = U64(b.max_dev)]]
    ELSE [b |-> b, md |-> md]

\* Builder::remap_device_id yields [b, md]
remap_device_id(b, md) ==
    IF b.format \in {"Odc", "BinLE", "BinBE"}
    THEN IF md.dev \in DOMAIN b.devices
         THEN [b |-> b, md |-> [md EXCEPT !.dev = U64(b.devices[md.dev])]]
         ELSE [b |-> [b EXCEPT !.max_dev = b.max_dev + 1,
                               !.devices = Put(b.devices, md.dev, b.max_dev)],
               md |-> [md EXCEPT !.dev = U64(b.max_dev)]]
    ELSE [b |-> b, md |-> md]

\* A remap_inode that leaves file_size alone for a (dev, ino) already seen.
remap_inode_keeps_size(b, md) ==
    LET id == MetadataId(md)
    IN  IF id \notin DOMAIN b.inodes
        THEN [b |-> [b EXCEPT !.max_inode = b.max_inode + 1,
                              !.inodes = Put(b.inodes, id, <<b.max_inode, U32(0)>>)],
              md |-> [md EXCEPT !.ino = U64(b.max_inode)],
              is_hard_link |-> FALSE]
        ELSE [b |-> b,
              md |-> [md EXCEPT !.check = b.inodes[id][2], !.ino = U64(b.inodes[id][1])],
              is_hard_link |-> IsNewcLike(b.format)]

\* A remap_inode that hands out a number without advancing max_inode.
remap_inode_same_number(b, md) ==
    LET id == MetadataId(md)
    IN  IF id \notin DOMAIN b.inodes
        THEN [b |-> [b EXCEPT !.inodes = Put(b.inodes, id, <<b.max_inode, U32(0)>>)],
              md |-> [md EXCEPT !.ino = U64(b.max_inode)],
              is_hard_link |-> FALSE]
        ELSE IF IsNewcLike(b.format)
        THEN [b |-> b,
              md |-> [md EXCEPT !.file_size = U64(0), !.check = b.inodes[id][2],
                                !.ino = U64(b.inodes[id][1])],
              is_hard_link |-> TRUE]
        ELSE [b |-> b, md |-> [md EXCEPT !.ino = U64(b.inodes[id][1])],
              is_hard_link |-> FALSE]

\* Builder::remap_inode yields [b, md, is_hard_link]
remap_inode(b, md) ==
    LET id == MetadataId(md)
    IN  IF id \notin DOMAIN b.inodes
        THEN [b |-> [b EXCEPT !.max_inode = b.max_inode + 1,
                              !.inodes = Put(b.inodes, id, <<b.max_inode, U32(0)>>)],
              md |-> [md EXCEPT !.ino = U64(b.max_inode)],
              is_hard_link |-> FALSE]
        ELSE IF IsNewcLike(b.format)
        THEN \* the data is only stored for the first hard link
             [b |-> b,
              md |-> [md EXCEPT !.file_size = U64(0), !.check = b.inodes[id][2],
                                !.ino = U64(b.inodes[id][1])],
              is_hard_link |-> TRUE]
        ELSE [b |-> b, md |-> [md EXCEPT !.ino = U64(b.inodes[id][1])],
              is_hard_link |-> FALSE]

\* A largest name_len that is the one of newc in every format.
MaxNameBitsOfNewc(format) == MAX_8_BITS

\* The width in bits of the largest name_len of a format (MAX_8, MAX_6,
\* u16::MAX)
MaxNameBits(format) ==
    IF IsNewcLike(format) THEN MAX_8_BITS
    ELSE IF format = "Odc" THEN MAX_6_BITS
    ELSE 16

\* Builder::fix_header yields [ok, b, md, is_hard_link]; name_len is the
\* number of bytes of the name.  `name_len > max - 1` is name_len + 1 > max.
fix_header(b, md, name_len) ==
    LET fixed(i) ==
            IF ~Fits(U64(name_len + 1), MaxNameBits(b.format))
            THEN [ok |-> FALSE, b |-> i.b, md |-> i.md, is_hard_link |-> i.is_hard_link]
            ELSE [ok |-> TRUE, b |-> i.b,
                  md |-> [i.md EXCEPT !.name_len = U32(name_len + 1)],
                  is_hard_link |-> i.is_hard_link]
        remapped(d) == fixed(remap_inode(d.b, d.md))
    IN  remapped(remap_device_id(b, md))

\* An append_entry that does not compare the number of payload bytes with
\* file_size.
append_entry_unchecked(b, metadata, inner_path, data) ==
    LET written(fh, is_crc, b1, ed, header) ==
            LET md == ed.md
                b2 == [b1 EXCEPT !.writer = b1.writer \o header.out]
                b3 == [b2 EXCEPT !.writer = b2.writer \o write_path(inner_path, b.format)]
                file_contents == IF is_crc THEN data ELSE <<>>
                payload == IF is_crc THEN file_contents ELSE data
                n == Len(payload)
                b4 == [b3 EXCEPT !.writer = b3.writer \o payload]
                b5 == [b4 EXCEPT !.writer = b4.writer \o write_file_padding(n, b.format)]
            IN  IF ~fh.ok THEN [ok |-> FALSE, b |-> fh.b, md |-> fh.md]
                ELSE IF ~ed.ok THEN [ok |-> FALSE, b |-> b1, md |-> md]
                ELSE IF ~header.ok THEN [ok |-> FALSE, b |-> b2, md |-> md]
                ELSE IF IsZero(md.file_size) THEN [ok |-> TRUE, b |-> b3, md |-> md]
                ELSE [ok |-> TRUE, b |-> b5, md |-> md]
        called(fh, is_crc, b1, ed) ==
            written(fh, is_crc, [b1 EXCEPT !.metadata_editor = ed.editor], ed,
                    MetadataWrite(ed.md, b.format))
        edited(fh, is_crc, b1, md1) ==
            called(fh, is_crc, b1, edit_metadata(b1.metadata_editor, md1, Len(b1.writer)))
        summed(fh, is_crc, md1) ==
            edited(fh, is_crc,
                   \* update crc
                   IF is_crc /\ MetadataId(md1) \in DOMAIN fh.b.inodes
                   THEN [fh.b EXCEPT !.inodes[MetadataId(md1)][2] = md1.check]
                   ELSE fh.b,
                   md1)
        fixed(fh, is_crc) ==
            summed(fh, is_crc, IF is_crc THEN [fh.md EXCEPT !.check = CrcSum(data)] ELSE fh.md)
        checked(fh) == fixed(fh, b.format = "Crc" /\ is_file(fh.md) /\ ~fh.is_hard_link)
    IN  checked(fix_header(b, metadata, Len(inner_path)))

\* Builder::append_entry yields [ok, b, md]: the builder after the call
\* (its writer holds every byte written, also by a call that fails), and the
\* Metadata returned by a call that succeeds.
append_entry(b, metadata, inner_path, data) ==
    LET written(fh, is_crc, b1, ed, header) ==
            LET md == ed.md
                b2 == [b1 EXCEPT !.writer = b1.writer \o header.out]
                b3 == [b2 EXCEPT !.writer = b2.writer \o write_path(inner_path, b.format)]
                file_contents == IF is_crc THEN data ELSE <<>>
                payload == IF is_crc THEN file_contents ELSE data
                n == Len(payload)
                b4 == [b3 EXCEPT !.writer = b3.writer \o payload]
                b5 == [b4 EXCEPT !.writer = b4.writer \o write_file_padding(n, b.format)]
            IN  IF ~fh.ok THEN [ok |-> FALSE, b |-> fh.b, md |-> fh.md]
                ELSE IF ~ed.ok THEN [ok |-> FALSE, b |-> b1, md |-> md]
                ELSE IF ~header.ok THEN [ok |-> FALSE, b |-> b2, md |-> md]
                ELSE IF IsZero(md.file_size) THEN [ok |-> TRUE, b |-> b3, md |-> md]
                ELSE IF U64(n) # md.file_size THEN [ok |-> FALSE, b |-> b4, md |-> md]
                ELSE [ok |-> TRUE, b |-> b5, md |-> md]
        called(fh, is_crc, b1, ed) ==
            written(fh, is_crc, [b1 EXCEPT !.metadata_editor = ed.editor], ed,
                    MetadataWrite(ed.md, b.format))
        edited(fh, is_crc, b1, md1) ==
            called(fh, is_crc, b1, edit_metadata(b1.metadata_editor, md1, Len(b1.writer)))
        summed(fh, is_crc, md1) ==
            edited(fh, is_crc,
                   \* update crc
                   IF is_crc /\ MetadataId(md1) \in DOMAIN fh.b.inodes
                   THEN [fh.b EXCEPT !.inodes[MetadataId(md1)][2] = md1.check]
                   ELSE fh.b,
                   md1)
        fixed(fh, is_crc) ==
            summed(fh, is_crc, IF is_crc THEN [fh.md EXCEPT !.check = CrcSum(data)] ELSE fh.md)
        checked(fh) == fixed(fh, b.format = "Crc" /\ is_file(fh.md) /\ ~fh.is_hard_link)
    IN  checked(fix_header(b, metadata, Len(inner_path)))

\* Builder::write_trailer (called by finish) yields [ok, b]
TrailerMetadata ==
    MetadataOf(U64(0), U64(0), U32(0), U32(0), U32(0), U32(0), U64(0), U64(0),
               U32(Len(TRAILER) + 1), U64(0), U32(0))

write_trailer(b) ==
    LET written(header) ==
            IF ~header.ok THEN [ok |-> FALSE, b |-> [b EXCEPT !.writer = b.writer \o header.out]]
            ELSE [ok |-> TRUE,
                  b |-> [b EXCEPT !.writer = b.writer \o header.out
                                              \o write_path_c_str(TRAILER, b.format)]]
    IN  written(MetadataWrite(TrailerMetadata, b.format))

(***************************************************************************)
(* archive.rs: the reader.  An archive is a record [stream, pos, contents, *)
(* cur_contents, preserve_mtime, preserve_owner, verify_crc]: stream and   *)
(* pos are the underlying reader (its bytes and how many were consumed),   *)
(* contents maps a MetadataId to the cached bytes of a file with more than *)
(* one hard link.                                                          *)
(***************************************************************************)
\* Archive::new
ArchiveNew(stream) ==
    [stream |-> stream, pos |-> 0, contents |-> <<>>, cur_contents |-> <<>>,
     preserve_mtime |-> FALSE, preserve_owner |-> FALSE, verify_crc |-> FALSE]

\* A length of the header as a natural.  No stream of the model holds
\* StreamCap bytes, so a longer length behaves as StreamCap does.
StreamCap == 1048576
AsLen(bits) == IF Fits(bits, 20) THEN Val(bits) ELSE StreamCap

Min2(a, b) == IF a <= b THEN a ELSE b

\* A Slice reader that holds no bytes.
SliceReaderEmpty(bytes) == [type |-> "Slice", limit |-> 0, slice |-> <<>>]

\* An entry's data reader: InnerEntryReader::Stream(Take) with its limit,
\* or InnerEntryReader::Slice with the bytes not yet read
StreamReader(limit) == [type |-> "Stream", limit |-> limit, slice |-> <<>>]
SliceReader(bytes) == [type |-> "Slice", limit |-> 0, slice |-> bytes]
NoEntry == [md |-> NoMetadata, path |-> <<>>, format |-> "Newc", reader |-> SliceReader(<<>>)]

\* std::io::copy(&mut reader.take(limit), ..): every byte up to the limit
\* or the end of the stream, whichever comes first (a short stream is no
\* error)
CopyTake(s, p, limit) == ReadUpTo(s, p, limit)

\* read_and_verify_crc yields [ok, val, pos]
read_and_verify_crc(s, p, limit, check) ==
    LET r == CopyTake(s, p, limit)
    IN  [ok |-> CrcSum(r.val) = check, val |-> r.val, pos |-> r.pos]

\* Archive::read_entry yields [kind, a, entry]: kind "none" is Ok(None),
\* "err" an Err, "entry" Ok(Some(entry)); a is the archive after the call.
read_entry(a) ==
    LET s == a.stream
        none(q) == [kind |-> "none", a |-> [a EXCEPT !.pos = q], entry |-> NoEntry]
        err(q) == [kind |-> "err", a |-> [a EXCEPT !.pos = q], entry |-> NoEntry]
        body(metadata, format, path) ==
            LET some(a1, reader) ==
                    [kind |-> "entry", a |-> a1,
                     entry |-> [md |-> metadata, path |-> path.val, format |-> format,
                                reader |-> reader]]
                file_type == FileTypeNew(metadata.mode)
                verify_crc == format = "Crc" /\ a.verify_crc /\ file_type = "Regular"
                limit == AsLen(metadata.file_size)
                id == MetadataId(metadata)
                primary == /\ ~IsZero(metadata.file_size)
                           /\ ~Fits(metadata.nlink, 1)
                           /\ file_type # "Directory"
                rest(a1) ==
                    LET verified(cur) ==
                            IF ~cur.ok THEN err(cur.pos)
                            ELSE some([a1 EXCEPT !.pos = cur.pos, !.cur_contents = cur.val],
                                      SliceReader(cur.val))
                    IN  IF id \in DOMAIN a1.contents
                        THEN some(a1, SliceReader(a1.contents[id]))
                        ELSE IF verify_crc
                        THEN verified(read_and_verify_crc(s, a1.pos, limit, metadata.check))
                        ELSE some(a1, StreamReader(limit))
                copied(r) == [ok |-> TRUE, val |-> r.val, pos |-> r.pos]
                \* the primary of a hard-link group: read and cache its contents
                cache(cached) ==
                    IF ~cached.ok THEN err(cached.pos)
                    ELSE rest([a EXCEPT !.pos = cached.pos,
                                        !.contents = Put(a.contents, id, cached.val)])
            IN  IF ~path.ok THEN err(path.pos)
                ELSE IF path.val = TRAILER THEN none(path.pos)
                ELSE IF IsNewcLike(format)
                THEN IF file_type = "Invalid" THEN err(path.pos)
                     ELSE IF primary
                     THEN cache(IF verify_crc
                                THEN read_and_verify_crc(s, path.pos, limit, metadata.check)
                                ELSE copied(CopyTake(s, path.pos, limit)))
                     ELSE rest([a EXCEPT !.pos = path.pos])
                ELSE some([a EXCEPT !.pos = path.pos], StreamReader(limit))
        header(rs) ==
            IF rs.kind = "none" THEN none(rs.pos)
            ELSE IF rs.kind = "err" THEN err(rs.pos)
            ELSE body(rs.md, rs.format,
                      read_path_buf(s, rs.pos, AsLen(rs.md.name_len), rs.format))
    IN  header(read_some(s, a.pos))

\* Read for EntryReader: read up to k bytes; yields [val, a, entry]
EntryRead(a, entry, k) ==
    IF entry.reader.type = "Stream"
    THEN LET r == ReadUpTo(a.stream, a.pos, Min2(k, entry.reader.limit))
         IN  [val |-> r.val, a |-> [a EXCEPT !.pos = r.pos],
              entry |-> [entry EXCEPT !.reader.limit = entry.reader.limit - r.n]]
    ELSE LET n == Min2(k, Len(entry.reader.slice))
         IN  [val |-> SubSeq(entry.reader.slice, 1, n), a |-> a,
              entry |-> [entry EXCEPT
                           !.reader.slice = SubSeq(entry.reader.slice, n + 1,
                                                   Len(entry.reader.slice))]]

\* The bytes an entry's reader still holds (read_to_end, copy_to)
EntryRemaining(a, entry) ==
    IF entry.reader.type = "Stream"
    THEN Min2(entry.reader.limit, Len(a.stream) - a.pos)
    ELSE Len(entry.reader.slice)

\* file_size as usize % align depends on the low bits of file_size only
FileSizeLow(md) == Val(SubSeq(md.file_size, 1, 8))

\* A discard that skips the payload and leaves the padding on the stream.
discard_no_padding(a, entry) ==
    IF entry.reader.type = "Stream"
    THEN [a EXCEPT !.pos = CopyTake(a.stream, a.pos, entry.reader.limit).pos]
    ELSE a

\* A discard that puts the stream back to its start.
discard_rewinds(a, entry) == [a EXCEPT !.pos = 0]

\* EntryReader::discard, called by Drop for Entry, which ignores its
\* result: yields the archive after the drop
discard(a, entry) ==
    LET skipped == IF entry.reader.type = "Stream"
                   THEN CopyTake(a.stream, a.pos, entry.reader.limit).pos
                   ELSE a.pos
        \* handle padding
        pad == read_file_padding(a.stream, skipped, FileSizeLow(entry.md), entry.format)
    IN  [a EXCEPT !.pos = pad.pos]

(***************************************************************************)
(* Values of the inputs: modes, device numbers, a modification time        *)
(***************************************************************************)
\* 0o100644, 0o040755, 0o120777
ModeRegular == U32(33188)
ModeDirectory == U32(16877)
ModeSymlink == U32(41471)
Dev1 == makedev(U32(8), U32(1))
Dev2 == makedev(U32(0), U32(2))
MTime == U64(1700000000)

(***************************************************************************)
(* Paths.  A path is the sequence of its components (std::path::Path       *)
(* compares and joins paths by component); every path of the model is      *)
(* absolute, <<>> is "/".                                                  *)
(***************************************************************************)
\* The components of a byte string: split at '/' (47), empty components
\* dropped
RECURSIVE Split(_, _, _)
Split(bytes, cur, acc) ==
    IF bytes = <<>> THEN (IF cur = <<>> THEN acc ELSE Append(acc, cur))
    ELSE IF Head(bytes) = 47
    THEN Split(Tail(bytes), <<>>, IF cur = <<>> THEN acc ELSE Append(acc, cur))
    ELSE Split(Tail(bytes), Append(cur, Head(bytes)), acc)

\* Path::components: has_root tells an absolute path, "." is no component
Components(bytes) ==
    [has_root |-> bytes # <<>> /\ bytes[1] = 47,
     comps |-> SelectSeq(Split(bytes, <<>>, <<>>), LAMBDA c : c # <<46>>)]

\* base.join(rel).normalize() for a normalized base: ".." pops a component
\* (PathBuf::pop leaves "/" as it is), every other component is pushed
RECURSIVE Normalize(_, _)
Normalize(comps, ret) ==
    IF comps = <<>> THEN ret
    ELSE Normalize(Tail(comps),
                   IF Head(comps) = <<46, 46>>
                   THEN (IF ret = <<>> THEN ret ELSE SubSeq(ret, 1, Len(ret) - 1))
                   ELSE Append(ret, Head(comps)))

\* Path::starts_with
StartsWith(path, base) ==
    Len(path) >= Len(base) /\ SubSeq(path, 1, Len(base)) = base

\* Path::parent of a path other than "/"
Parent(path) == SubSeq(path, 1, Len(path) - 1)

\* the bytes of a relative path
RECURSIVE JoinPath(_)
JoinPath(comps) ==
    IF comps = <<>> THEN <<>>
    ELSE IF Len(comps) = 1 THEN comps[1]
    ELSE comps[1] \o <<47>> \o JoinPath(Tail(comps))

\* Ord for byte strings and for paths (component by component)
RECURSIVE BytesLess(_, _)
BytesLess(x, y) ==
    IF y = <<>> THEN FALSE
    ELSE IF x = <<>> THEN TRUE
    ELSE IF Head(x) # Head(y) THEN Head(x) < Head(y)
    ELSE BytesLess(Tail(x), Tail(y))

RECURSIVE PathLess(_, _)
PathLess(x, y) ==
    IF y = <<>> THEN FALSE
    ELSE IF x = <<>> THEN TRUE
    ELSE IF Head(x) # Head(y) THEN BytesLess(Head(x), Head(y))
    ELSE PathLess(Tail(x), Tail(y))

(***************************************************************************)
(* The file system the packer reads and the unpacker writes: a sequence of *)
(* inodes [kind, mode, data, ents, mtime]; inode 1 is the root directory.  *)
(* kind is a FileType, mode the permission bits, data the bytes of a file  *)
(* or the target of a symbolic link, ents maps the names of a directory to *)
(* inodes.  The process owns every inode and is not root.                  *)
(***************************************************************************)
\* the clock of the file system while the unpacker runs
Now == U64(1800000000)

Inode(kind, mode, data, ents, mtime) ==
    [kind |-> kind, mode |-> mode, data |-> data, ents |-> ents, mtime |-> mtime]

\* owner permission bits
OwnerMayRead(node) == (node.mode \div 256) % 2 = 1
OwnerMayWrite(node) == (node.mode \div 128) % 2 = 1
OwnerMaySearch(node) == (node.mode \div 64) % 2 = 1

\* Path resolution from directory cwd: [res, ino, dir, name] where res is
\* "found" (ino in directory dir under name), "missing" (no entry name in
\* the directory dir, which exists), "notfound" (ENOENT on the way) or "err"
\* (ENOTDIR, EACCES, ELOOP).  A symbolic link on the way is followed, the
\* last component only when follow is set.  Targets of symbolic links hold
\* no "..".
RECURSIVE Resolve(_, _, _, _, _)
Resolve(fs, cwd, comps, follow, fuel) ==
    IF comps = <<>> THEN [res |-> "found", ino |-> cwd, dir |-> cwd, name |-> <<>>]
    ELSE IF fs[cwd].kind # "Directory" \/ ~OwnerMaySearch(fs[cwd])
    THEN [res |-> "err", ino |-> 0, dir |-> cwd, name |-> Head(comps)]
    ELSE IF Head(comps) \notin DOMAIN fs[cwd].ents
    THEN [res |-> IF Len(comps) = 1 THEN "missing" ELSE "notfound",
          ino |-> 0, dir |-> cwd, name |-> Head(comps)]
    ELSE LET n == fs[cwd].ents[Head(comps)]
             target == Components(fs[n].data)
         IN  IF fs[n].kind = "Symlink" /\ (Len(comps) > 1 \/ follow)
             THEN IF fuel = 0
                  THEN [res |-> "err", ino |-> 0, dir |-> cwd, name |-> Head(comps)]
                  ELSE Resolve(fs, IF target.has_root THEN 1 ELSE cwd,
                               target.comps \o Tail(comps), follow, fuel - 1)
             ELSE IF Len(comps) = 1
             THEN [res |-> "found", ino |-> n, dir |-> cwd, name |-> Head(comps)]
             ELSE Resolve(fs, n, Tail(comps), follow, fuel)

\* the most symbolic links one resolution follows
MaxSymlinks == 4

Lookup(fs, path, follow) == Resolve(fs, 1, path, follow, MaxSymlinks)

\* a new inode entered in directory dir under name
AddNode(fs, dir, name, node) ==
    Append([fs EXCEPT ![dir].ents = Put(@, name, Len(fs) + 1), ![dir].mtime = Now], node)

\* The results of the calls: [ok, fs, ino, why]; why is "NotFound" for
\* ErrorKind::NotFound
FsOk(fs, ino) == [ok |-> TRUE, fs |-> fs, ino |-> ino, why |-> ""]
FsErr(fs, why) == [ok |-> FALSE, fs |-> fs, ino |-> 0, why |-> why]

\* creation of an inode at a path whose last component is not followed
\* (mkdir, symlink, mkfifo, bind)
CreateAt(fs, path, node) ==
    LET at(r) ==
            IF r.res = "notfound" THEN FsErr(fs, "NotFound")
            ELSE IF r.res # "missing" \/ ~OwnerMayWrite(fs[r.dir]) THEN FsErr(fs, "Other")
            ELSE FsOk(AddNode(fs, r.dir, r.name, node), Len(fs) + 1)
    IN  IF path = <<>> THEN FsErr(fs, "Other") ELSE at(Lookup(fs, path, FALSE))

\* std::fs::create_dir: mkdir with mode 0o777 under umask 0o022
create_dir(fs, path) == CreateAt(fs, path, Inode("Directory", 493, <<>>, <<>>, Now))

\* Path::is_dir (follows symbolic links)
IsDir(fs, path) ==
    LET is(r) == r.res = "found" /\ fs[r.ino].kind = "Directory"
    IN  is(Lookup(fs, path, TRUE))

\* std::fs::create_dir_all: mkdir; when the parent is missing, the parents
\* first and mkdir again; a failure of mkdir is no error when the path is a
\* directory
RECURSIVE create_dir_all(_, _)
create_dir_all(fs, path) ==
    LET again(m) == IF m.ok \/ IsDir(fs, path) THEN FsOk(m.fs, m.ino) ELSE m
        parents(p) == IF ~p.ok THEN p
                      ELSE LET second(m) == IF m.ok \/ IsDir(p.fs, path)
                                            THEN FsOk(m.fs, m.ino) ELSE m
                           IN  second(create_dir(p.fs, path))
        first(m) == IF m.ok THEN m
                    ELSE IF m.why = "NotFound" THEN parents(create_dir_all(fs, Parent(path)))
                    ELSE again(m)
    IN  IF path = <<>> THEN FsOk(fs, 1) ELSE first(create_dir(fs, path))

\* File::create: open(O_WRONLY | O_CREAT | O_TRUNC, 0o666) under umask
\* 0o022; the last component is followed
FileCreate(fs, path) ==
    LET at(r) ==
            IF r.res = "found"
            THEN IF fs[r.ino].kind # "Regular" \/ ~OwnerMayWrite(fs[r.ino])
                 THEN FsErr(fs, "Other")
                 ELSE FsOk([fs EXCEPT ![r.ino].data = <<>>, ![r.ino].mtime = Now], r.ino)
            ELSE IF r.res = "missing" /\ OwnerMayWrite(fs[r.dir])
            THEN FsOk(AddNode(fs, r.dir, r.name, Inode("Regular", 420, <<>>, <<>>, Now)),
                      Len(fs) + 1)
            ELSE FsErr(fs, IF r.res = "notfound" THEN "NotFound" ELSE "Other")
    IN  at(Lookup(fs, path, TRUE))

\* File::options().write(true).truncate(true).open
OpenTruncate(fs, path) ==
    LET at(r) ==
            IF r.res = "found" /\ fs[r.ino].kind = "Regular" /\ OwnerMayWrite(fs[r.ino])
            THEN FsOk([fs EXCEPT ![r.ino].data = <<>>, ![r.ino].mtime = Now], r.ino)
            ELSE FsErr(fs, IF r.res \in {"missing", "notfound"} THEN "NotFound" ELSE "Other")
    IN  at(Lookup(fs, path, TRUE))

\* the bytes std::io::copy writes to a file just created or truncated
WriteAll(fs, ino, data) ==
    IF data = <<>> THEN fs ELSE [fs EXCEPT ![ino].data = data, ![ino].mtime = Now]

\* File::set_modified and File::set_permissions on an open file
set_modified(fs, ino, mtime) == [fs EXCEPT ![ino].mtime = mtime]
FileSetPermissions(fs, ino, mode) == [fs EXCEPT ![ino].mode = mode % 4096]

\* std::fs::set_permissions: chmod, which follows symbolic links
set_permissions(fs, path, mode) ==
    LET at(r) == IF r.res = "found" THEN FsOk(FileSetPermissions(fs, r.ino, mode), r.ino)
                 ELSE FsErr(fs, IF r.res = "err" THEN "Other" ELSE "NotFound")
    IN  at(Lookup(fs, path, TRUE))

\* std::fs::hard_link: linkat, which follows the last component of neither
\* path
hard_link(fs, original, link) ==
    LET at(o, l) ==
            IF o.res # "found" THEN FsErr(fs, IF o.res = "err" THEN "Other" ELSE "NotFound")
            ELSE IF fs[o.ino].kind = "Directory" THEN FsErr(fs, "Other")
            ELSE IF l.res = "notfound" THEN FsErr(fs, "NotFound")
            ELSE IF l.res # "missing" \/ ~OwnerMayWrite(fs[l.dir]) THEN FsErr(fs, "Other")
            ELSE FsOk([fs EXCEPT ![l.dir].ents = Put(@, l.name, o.ino), ![l.dir].mtime = Now],
                      o.ino)
    IN  at(Lookup(fs, original, FALSE), Lookup(fs, link, FALSE))

\* std::os::unix::fs::symlink
symlink(fs, original, link) == CreateAt(fs, link, Inode("Symlink", 511, original, <<>>, Now))

\* permission bits under umask 0o022
Umask(mode) == mode - ((mode \div 16) % 2) * 16 - ((mode \div 2) % 2) * 2

\* FileType as u8
FileTypeBits(kind) ==
    IF kind = "Socket" THEN 12
    ELSE IF kind = "Symlink" THEN 10
    ELSE IF kind = "Regular" THEN 8
    ELSE IF kind = "BlockDevice" THEN 6
    ELSE IF kind = "Directory" THEN 4
    ELSE IF kind = "CharDevice" THEN 2
    ELSE 1

\* st_mode and st_nlink of an inode
StMode(node) == FileTypeBits(node.kind) * 4096 + node.mode
StNlink(fs, ino) ==
    IF fs[ino].kind = "Directory"
    THEN 2 + Cardinality({nm \in DOMAIN fs[ino].ents : fs[fs[ino].ents[nm]].kind = "Directory"})
    ELSE Cardinality({dn \in {<<d, nm>> \in (1..Len(fs)) \X UNION {DOMAIN fs[k].ents : k \in 1..Len(fs)} :
                                  nm \in DOMAIN fs[d].ents} :
                          fs[dn[1]].ents[dn[2]] = ino})

\* Path::metadata()?.mode(): stat, which follows symbolic links; [ok, mode]
PathMode(fs, path) ==
    LET at(r) == IF r.res = "found" THEN [ok |-> TRUE, mode |-> StMode(fs[r.ino])]
                 ELSE [ok |-> FALSE, mode |-> 0]
    IN  at(Lookup(fs, path, TRUE))

\* TryFrom<&std::fs::Metadata> for Metadata, on every inode of device Dev1
\* owned by user and group 1000; the inode numbers start at 1000
MetadataFromFs(fs, ino) ==
    MetadataOf(Dev1, U64(1000 + ino), U32(StMode(fs[ino])), U32(1000), U32(1000),
               U32(StNlink(fs, ino)), U64(0), fs[ino].mtime, U32(0),
               U64(IF fs[ino].kind = "Directory" THEN 4096 ELSE Len(fs[ino].data)), U32(0))

\* Path::symlink_metadata: lstat; [ok, ino, md]
symlink_metadata(fs, path) ==
    LET at(r) == IF r.res = "found"
                 THEN [ok |-> TRUE, ino |-> r.ino, md |-> MetadataFromFs(fs, r.ino)]
                 ELSE [ok |-> FALSE, ino |-> 0, md |-> NoMetadata]
    IN  at(Lookup(fs, path, FALSE))

(***************************************************************************)
(* builder.rs: packing from the file system                                *)
(***************************************************************************)
\* a set of names in ascending order
RECURSIVE SortedNames(_)
SortedNames(names) ==
    IF names = {} THEN <<>>
    ELSE LET least == CHOOSE x \in names : \A y \in names \ {x} : BytesLess(x, y)
         IN  <<least>> \o SortedNames(names \ {least})

\* the paths below the directory ino, a directory before its entries, the
\* entries of a directory in the order of their names
RECURSIVE WalkFrom(_, _, _, _)
WalkFrom(fs, ino, prefix, names) ==
    IF names = <<>> THEN <<>>
    ELSE LET child == fs[ino].ents[Head(names)]
         IN  <<Append(prefix, Head(names))>>
             \o (IF fs[child].kind = "Directory"
                 THEN WalkFrom(fs, child, Append(prefix, Head(names)),
                               SortedNames(DOMAIN fs[child].ents))
                 ELSE <<>>)
             \o WalkFrom(fs, ino, prefix, Tail(names))

\* Walk::walk: the directory itself, then the paths below it; [ok, val]
Walk(fs, directory) ==
    LET from(r) ==
            IF r.res # "found" \/ fs[r.ino].kind # "Directory"
            THEN [ok |-> FALSE, val |-> <<>>]
            ELSE [ok |-> TRUE,
                  val |-> <<directory>> \o WalkFrom(fs, r.ino, directory,
                                                    SortedNames(DOMAIN fs[r.ino].ents))]
    IN  from(Lookup(fs, directory, TRUE))

\* Builder::append_path yields [ok, b, md]
append_path(b, fs, path, inner_path) ==
    LET failed == [ok |-> FALSE, b |-> b, md |-> NoMetadata]
        stat(st) ==
            IF ~st.ok THEN failed
            ELSE IF fs[st.ino].kind = "Symlink"
            THEN append_entry(b, [st.md EXCEPT !.file_size = U64(Len(fs[st.ino].data) + 1)],
                              inner_path, fs[st.ino].data \o <<0>>)
            ELSE IF fs[st.ino].kind = "Regular"
            THEN IF ~OwnerMayRead(fs[st.ino]) THEN failed
                 ELSE append_entry(b, st.md, inner_path, fs[st.ino].data)
            ELSE \* directory, block/character device, socket, fifo
                 append_entry(b, [st.md EXCEPT !.file_size = U64(0)], inner_path, <<>>)
    IN  stat(symlink_metadata(fs, path))

\* the loop of Builder::append_dir_all over the entries of the walk
RECURSIVE AppendPaths(_, _, _, _)
AppendPaths(b, fs, directory, entries) ==
    LET step(r) == IF ~r.ok THEN [ok |-> FALSE, b |-> r.b]
                   ELSE AppendPaths(r.b, fs, directory, Tail(entries))
    IN  IF entries = <<>> THEN [ok |-> TRUE, b |-> b]
        ELSE IF Head(entries) = directory
        THEN AppendPaths(b, fs, directory, Tail(entries))
        ELSE step(append_path(b, fs, Head(entries),
                              JoinPath(SubSeq(Head(entries), Len(directory) + 1,
                                              Len(Head(entries))))))

\* Builder::append_dir_all yields [ok, b]
append_dir_all(b, fs, directory) ==
    LET walked(w) == IF ~w.ok THEN [ok |-> FALSE, b |-> b]
                     ELSE AppendPaths(b, fs, directory, w.val)
    IN  walked(Walk(fs, directory))

(***************************************************************************)
(* archive.rs: unpacking to the file system.  The state of one call of     *)
(* Archive::unpack is [directory, dirs, hard_links, seen]: the target      *)
(* directory, the directories whose permissions are applied at the end,    *)
(* the map from an inode number to <<path, file_size>> of its first entry, *)
(* and a record of every entry read_entry yielded.                         *)
(***************************************************************************)
UnpackNew(directory) ==
    [directory |-> directory, dirs |-> <<>>, hard_links |-> <<>>, seen |-> <<>>]

\* x < y for two u64
BitsLess(x, y) ==
    \E i \in 1..Len(x) : x[i] < y[i] /\ \A j \in (i + 1)..Len(x) : x[j] = y[j]

\* is_writable: ((mode & FILE_MODE_MASK) >> 8) & FILE_WRITE_BIT != 0
is_writable(mode) == ((((mode % 4096) \div 256) \div 2) % 2) # 0

\* the payload of a symbolic link without its trailing NUL
LinkTarget(original) ==
    IF original # <<>> /\ original[Len(original)] = 0
    THEN SubSeq(original, 1, Len(original) - 1)
    ELSE original

\* One iteration of the loop of Archive::unpack on the entry read_entry
\* yielded; [ok, fs, u, a] where a is the archive after the entry is dropped
unpack_entry(fs, u, a, entry) ==
    LET metadata == entry.md
        file_type == FileTypeNew(metadata.mode)
        fail(fs1) == [ok |-> FALSE, fs |-> fs1, u |-> u, a |-> discard(a, entry)]
        next(fs1, u1, a1) == [ok |-> TRUE, fs |-> fs1, u |-> u1, a |-> a1]
        modified(fs1, ino) ==
            IF a.preserve_mtime /\ Fits(metadata.mtime, 63)
            THEN set_modified(fs1, ino, metadata.mtime)
            ELSE fs1
        at(path, all) ==
            LET \* Occupied: the payload arrived with a later name of the inode
                restored(p) == IF ~p.ok THEN fail(p.fs)
                               ELSE next(p.fs, u, discard(all.a, all.entry))
                rewritten(old_mode, f) ==
                    IF ~f.ok THEN fail(f.fs)
                    ELSE restored(set_permissions(
                                      modified(WriteAll(f.fs, f.ino, all.val), f.ino),
                                      path, old_mode))
                writable(old_mode, p) ==
                    IF ~p.ok THEN fail(p.fs) ELSE rewritten(old_mode, OpenTruncate(p.fs, path))
                stated(h, st) ==
                    IF ~st.ok THEN fail(h.fs)
                    ELSE writable(st.mode,
                                  IF ~is_writable(st.mode)
                                  THEN \* make writable
                                       set_permissions(h.fs, path, 420)
                                  ELSE FsOk(h.fs, 0))
                linked(original, h) ==
                    IF ~h.ok THEN fail(h.fs)
                    ELSE IF is_file(metadata) /\ BitsLess(original[2], metadata.file_size)
                    THEN stated(h, PathMode(h.fs, path))
                    ELSE next(h.fs, u, discard(a, entry))
                \* Vacant
                u1 == [u EXCEPT !.hard_links = Put(@, metadata.ino,
                                                   <<path, metadata.file_size>>)]
                regular(c) ==
                    IF ~c.ok THEN fail(c.fs)
                    ELSE next(FileSetPermissions(
                                  modified(WriteAll(c.fs, c.ino, all.val), c.ino),
                                  c.ino, file_mode(metadata.mode)),
                              u1, discard(all.a, all.entry))
                directory(c) ==
                    IF ~c.ok THEN fail(c.fs)
                    ELSE \* apply proper permissions later
                         next(modified(c.fs, c.ino),
                              [u1 EXCEPT !.dirs = Append(@, <<path, file_mode(metadata.mode)>>)],
                              discard(a, entry))
                special(c) ==
                    IF ~c.ok THEN fail(c.fs)
                    ELSE next(modified(c.fs, c.ino), u1, discard(a, entry))
                link(c) ==
                    IF ~c.ok THEN fail(c.fs) ELSE next(c.fs, u1, discard(all.a, all.entry))
                typed(d) ==
                    IF ~d.ok THEN fail(d.fs)
                    ELSE IF metadata.ino \in DOMAIN u.hard_links
                    THEN linked(u.hard_links[metadata.ino],
                                hard_link(d.fs, u.hard_links[metadata.ino][1], path))
                    ELSE IF file_type = "Regular" THEN regular(FileCreate(d.fs, path))
                    ELSE IF file_type = "Directory" THEN directory(create_dir(d.fs, path))
                    ELSE IF file_type = "Fifo"
                    THEN special(CreateAt(d.fs, path,
                                          Inode("Fifo", Umask(file_mode(metadata.mode)),
                                                <<>>, <<>>, Now)))
                    ELSE IF file_type = "Socket"
                    THEN special(CreateAt(d.fs, path, Inode("Socket", 493, <<>>, <<>>, Now)))
                    ELSE IF file_type = "Symlink"
                    THEN link(symlink(d.fs, LinkTarget(all.val), path))
                    ELSE \* an invalid file type; mknod of a device, which only
                         \* root may call
                         fail(d.fs)
            IN  IF ~StartsWith(path, u.directory) THEN next(fs, u, discard(a, entry))
                ELSE typed(IF path = <<>> THEN FsOk(fs, 1) ELSE create_dir_all(fs, Parent(path)))
    IN  at(Normalize(Components(entry.path).comps, u.directory),
           EntryRead(a, entry, EntryRemaining(a, entry)))

\* A sort of the directories in ascending order of their paths.
RECURSIVE SortDirsAscending(_)
SortDirsAscending(dirs) ==
    IF dirs = <<>> THEN <<>>
    ELSE LET i == CHOOSE i \in 1..Len(dirs) :
                      \A j \in 1..Len(dirs) : ~PathLess(dirs[j][1], dirs[i][1])
         IN  <<dirs[i]>> \o SortDirsAscending(SubSeq(dirs, 1, i - 1)
                                               \o SubSeq(dirs, i + 1, Len(dirs)))

\* dirs.sort_unstable_by(|a, b| b.0.cmp(&a.0))
RECURSIVE SortDirs(_)
SortDirs(dirs) ==
    IF dirs = <<>> THEN <<>>
    ELSE LET i == CHOOSE i \in 1..Len(dirs) :
                      \A j \in 1..Len(dirs) : ~PathLess(dirs[i][1], dirs[j][1])
         IN  <<dirs[i]>> \o SortDirs(SubSeq(dirs, 1, i - 1) \o SubSeq(dirs, i + 1, Len(dirs)))


\* ---- STATE ----
(***************************************************************************)
(* Inputs of the builder: the Metadata, inner path and data of a call to   *)
(* append_entry.                                                           *)
(***************************************************************************)
InputOf(dev, ino, mode, nlink, mtime, file_size, path, data) ==
    [md |-> MetadataOf(dev, U64(ino), mode, U32(1000), U32(1000), U32(nlink), U64(0),
                       mtime, U32(0), U64(file_size), U32(0)),
     path |-> path, data |-> data]

Inputs ==
    << \* two names of one regular file "xyz"
       InputOf(Dev1, 500, ModeRegular, 2, MTime, 3, <<97>>, <<120, 121, 122>>),
       InputOf(Dev1, 500, ModeRegular, 2, MTime, 3, <<98>>, <<120, 121, 122>>),
       \* a regular file with two links whose inode number is 0
       InputOf(Dev1, 0, ModeRegular, 2, MTime, 1, <<99>>, <<113>>),
       \* a directory on another device (the names "dd", "sym" and "gggg"
       \* need 3, 2 and 1 bytes of name padding in newc)
       InputOf(Dev2, 7, ModeDirectory, 2, MTime, 0, <<100, 100>>, <<>>),
       \* a symbolic link to "a"
       InputOf(Dev1, 9, ModeSymlink, 1, MTime, 2, <<115, 121, 109>>, <<97, 0>>),
       \* a regular file whose data is longer than its file_size
       InputOf(Dev1, 11, ModeRegular, 1, MTime, 2, <<101>>, <<120, 121, 122>>),
       \* a regular file of file_size 0 that comes with data
       InputOf(Dev1, 12, ModeRegular, 1, MTime, 0, <<102>>, <<120, 121, 122>>),
       \* an empty regular file modified at 2^32 seconds
       InputOf(Dev1, 13, ModeRegular, 1, Pow2Bits(32, 64), 0, <<103, 103, 103, 103>>, <<>>),
       \* a regular file whose data is shorter than its file_size
       InputOf(Dev1, 14, ModeRegular, 1, MTime, 3, <<104>>, <<120>>) >>

\* The most entries appended to one archive.
MaxEntries == 2

VARIABLES
    b,        \* the Builder
    phase,    \* "build", "finished", "read", "end", "error"
    log,      \* one record per call of append_entry, in call order
    a,        \* the Archive (reader)
    live,     \* whether an Entry yielded by read_entry is alive
    entry,    \* that Entry
    cur,      \* the bytes read from the live entry so far
    got,      \* <<path, metadata>> of every entry read_entry yielded
    cm,       \* header codec: the Metadata to encode
    cf,       \* header codec: the format to encode it in
    cw,       \* header codec: the result of Metadata::write, [ok, out]
    cr,       \* header codec: the result of Metadata::read_some on cw.out
    fs,       \* the file system
    u,        \* the state of Archive::unpack
    job       \* what is packed or unpacked: a tree of TreeJobs, an archive of RawJobs

vars == <<b, phase, log, a, live, entry, cur, got, cm, cf, cw, cr, fs, u, job>>

\* the variables of the header codec, which the builder and the reader leave
\* alone
codecVars == <<cm, cf, cw, cr>>

\* the variables of the unpacker, which the other specifications leave
\* alone
unpackVars == <<fs, u, job>>

UnpackIdle ==
    /\ fs = <<>>
    /\ u = UnpackNew(<<>>)
    /\ job = "none"

NoRead == [kind |-> "none", md |-> NoMetadata, format |-> "Newc", pos |-> 0]

CodecIdle ==
    /\ cm = NoMetadata
    /\ cf = "Newc"
    /\ cw = Err(<<>>)
    /\ cr = NoRead

BuilderIdle ==
    /\ b = BuilderNew
    /\ log = <<>>
    /\ a = ArchiveNew(<<>>)
    /\ live = FALSE
    /\ entry = NoEntry
    /\ cur = <<>>
    /\ got = <<>>

(***************************************************************************)
(* Spec: a Builder writes an archive from the inputs, an Archive reads it  *)
(* back entry by entry.                                                    *)
(***************************************************************************)
Init ==
    /\ BuilderIdle
    /\ phase = "build"
    /\ CodecIdle
    /\ UnpackIdle

\* Builder::set_format, called before the first entry is appended
SetFormat(format) ==
    /\ phase = "build"
    /\ log = <<>>
    /\ b.format = "Newc"
    /\ b' = [b EXCEPT !.format = format]
    /\ UNCHANGED <<phase, log, a, live, entry, cur, got, codecVars, unpackVars>>

\* Builder::append_entry with the i-th input
AppendEntry(i) ==
    /\ phase = "build"
    /\ Len(log) < MaxEntries
    /\ \E r \in {append_entry(b, Inputs[i].md, Inputs[i].path, Inputs[i].data)} :
           /\ b' = r.b
           /\ log' = Append(log, [input |-> i, ok |-> r.ok, md |-> r.md,
                                  start |-> Len(b.writer), stop |-> Len(r.b.writer)])
    /\ UNCHANGED <<phase, a, live, entry, cur, got, codecVars, unpackVars>>

\* Builder::finish
Finish ==
    /\ phase = "build"
    /\ \E r \in {write_trailer(b)} :
           /\ b' = r.b
           /\ phase' = IF r.ok THEN "finished" ELSE "error"
    /\ UNCHANGED <<log, a, live, entry, cur, got, codecVars, unpackVars>>

\* Archive::new on the bytes written, and Archive::verify_crc
Open(verify) ==
    /\ phase = "finished"
    /\ a' = [ArchiveNew(b.writer) EXCEPT !.verify_crc = verify]
    /\ phase' = "read"
    /\ UNCHANGED <<b, log, live, entry, cur, got, codecVars, unpackVars>>

\* Archive::read_entry
ReadEntry ==
    /\ phase = "read"
    /\ ~live
    /\ \E r \in {read_entry(a)} :
           /\ a' = r.a
           /\ live' = (r.kind = "entry")
           /\ entry' = r.entry
           /\ phase' = IF r.kind = "none" THEN "end"
                       ELSE IF r.kind = "err" THEN "error" ELSE "read"
           /\ got' = IF r.kind = "entry"
                     THEN Append(got, <<r.entry.path, r.entry.md>>) ELSE got
    /\ cur' = <<>>
    /\ UNCHANGED <<b, log, codecVars, unpackVars>>

\* Read::read of one byte from the live entry
ReadByte ==
    /\ live
    /\ EntryRemaining(a, entry) > 0
    /\ \E r \in {EntryRead(a, entry, 1)} :
           /\ a' = r.a
           /\ entry' = r.entry
           /\ cur' = cur \o r.val
    /\ UNCHANGED <<b, phase, log, live, got, codecVars, unpackVars>>

\* Drop for Entry
DropEntry ==
    /\ live
    /\ a' = discard(a, entry)
    /\ live' = FALSE
    /\ UNCHANGED <<b, phase, log, entry, cur, got, codecVars, unpackVars>>

Next ==
    \/ \E f \in Formats \ {"Newc"} : SetFormat(f)
    \/ \E i \in 1..Len(Inputs) : AppendEntry(i)
    \/ Finish
    \/ \E v \in BOOLEAN : Open(v)
    \/ ReadEntry
    \/ ReadByte
    \/ DropEntry

Spec == Init /\ [][Next]_vars

(***************************************************************************)
(* SpecCodec: Metadata::write of one Metadata in one format, then          *)
(* Metadata::read_some of the bytes written.                               *)
(***************************************************************************)
\* The values the fields of the Metadata are drawn from: around the widths
\* of the formats (16, 18, 32 and 33 bits).
CodecDevs == {U64(0), makedev(U32(255), U32(255)), makedev(U32(256), U32(1))}
CodecInos == {MaxBits(16, 64), MaxBits(32, 64), Pow2Bits(32, 64)}
CodecModes == {ModeRegular, MaxBits(32, 32)}
CodecUids == {U32(1000), MaxBits(18, 32)}
CodecRdevs == {U64(0), makedev(U32(4), U32(64))}
CodecMtimes == {MTime, MaxBits(32, 64), Pow2Bits(32, 64), Pow2Bits(33, 64)}
CodecNameLens == {U32(2), MaxBits(16, 32)}
CodecFileSizes == {U64(3), MaxBits(32, 64), MaxBits(33, 64)}
CodecChecks == {U32(0), U32(363)}

CodecMetadata ==
    {MetadataOf(dev, ino, mode, uid, U32(1001), U32(2), rdev, mtime, name_len, file_size,
                check) :
        dev \in CodecDevs, ino \in CodecInos, mode \in CodecModes, uid \in CodecUids,
        rdev \in CodecRdevs, mtime \in CodecMtimes, name_len \in CodecNameLens,
        file_size \in CodecFileSizes, check \in CodecChecks}

InitCodec ==
    /\ BuilderIdle
    /\ phase = "write"
    /\ cm \in CodecMetadata
    /\ cf \in Formats
    /\ cw = Err(<<>>)
    /\ cr = NoRead
    /\ UnpackIdle

\* Metadata::write
CodecWrite ==
    /\ phase = "write"
    /\ cw' = MetadataWrite(cm, cf)
    /\ phase' = "written"
    /\ UNCHANGED <<b, log, a, live, entry, cur, got, cm, cf, cr, unpackVars>>

\* Metadata::read_some on the bytes of a write that returned Ok
CodecRead ==
    /\ phase = "written"
    /\ cw.ok
    /\ cr' = read_some(cw.out, 0)
    /\ phase' = "decoded"
    /\ UNCHANGED <<b, log, a, live, entry, cur, got, cm, cf, cw, unpackVars>>

NextCodec ==
    \/ CodecWrite
    \/ CodecRead

SpecCodec == InitCodec /\ [][NextCodec]_vars

(***************************************************************************)
(* SpecUnpack: an archive, packed by the Builder from a tree of the file   *)
(* system or produced by another program, is unpacked by Archive::unpack.  *)
(***************************************************************************)
\* "/t", the directory unpacked to, and "/src", the directory packed
Target == << <<116>> >>
Src == << <<115, 114, 99>> >>

Xyz == <<120, 121, 122>>

TreeJobs == {"links", "nested", "symlink", "flat", "empty"}
RawJobs == {"dotdot", "symlink-dir", "links-last-sticky", "links-last", "bad-check",
            "bad-link-check", "absolute", "deep", "same-ino", "cut-payload",
            "depth-first", "nlink-one"}

\* "/", "/o", "/o/v" and "/src" with the entries of the tree to pack
BaseFs(ents) ==
    << Inode("Directory", 493, <<>>, (<<111>> :> 2) @@ (<<115, 114, 99>> :> 4), MTime),
       Inode("Directory", 493, <<>>, (<<118>> :> 3), MTime),
       Inode("Regular", 420, <<118>>, <<>>, MTime),
       Inode("Directory", 493, <<>>, ents, MTime) >>

TreeFs(j) ==
    IF j = "links"
    THEN \* a and b, two names of one file
         BaseFs((<<97>> :> 5) @@ (<<98>> :> 5))
         \o << Inode("Regular", 420, Xyz, <<>>, MTime) >>
    ELSE IF j = "nested"
    THEN \* the directory d of mode 0o500 with the file d/f
         BaseFs((<<100>> :> 5))
         \o << Inode("Directory", 320, <<>>, (<<102>> :> 6), MTime),
               Inode("Regular", 420, Xyz, <<>>, MTime) >>
    ELSE IF j = "symlink"
    THEN \* the file a and the symbolic link s to it
         BaseFs((<<97>> :> 5) @@ (<<115>> :> 6))
         \o << Inode("Regular", 420, Xyz, <<>>, MTime),
               Inode("Symlink", 511, <<97>>, <<>>, MTime) >>
    ELSE IF j = "flat"
    THEN \* the file a, the file c of mode 0o400, the empty directory e
         BaseFs((<<97>> :> 5) @@ (<<99>> :> 6) @@ (<<101>> :> 7))
         \o << Inode("Regular", 420, Xyz, <<>>, MTime),
               Inode("Regular", 256, <<113>>, <<>>, MTime),
               Inode("Directory", 493, <<>>, <<>>, MTime) >>
    ELSE \* "empty" and the raw jobs: nothing in /src
         BaseFs(<<>>)

\* an entry of an archive produced by another program
RawOf(ino, mode, nlink, check, path, data) ==
    [md |-> MetadataOf(Dev1, U64(ino), U32(mode), U32(1000), U32(1000), U32(nlink), U64(0),
                       MTime, U32(Len(path) + 1), U64(Len(data)), U32(check)),
     path |-> path, data |-> data]

\* sum is the check of the payload "xyz" in crc and 0 elsewhere, bad a check
\* no payload of the archive has
RawEntries(j, sum, bad) ==
    IF j = "dotdot"
    THEN \* "../x" and "a"
         << RawOf(1, 33188, 1, sum, <<46, 46, 47, 120>>, Xyz),
            RawOf(2, 33188, 1, sum, <<97>>, Xyz) >>
    ELSE IF j = "symlink-dir"
    THEN \* the symbolic link s to "/o", then the file "s/f"
         << RawOf(1, 41471, 1, 0, <<115>>, <<47, 111, 0>>),
            RawOf(2, 33188, 1, sum, <<115, 47, 102>>, Xyz) >>
    ELSE IF j = "links-last-sticky"
    THEN \* two names of one file of mode 0o101444, the payload with the last
         << RawOf(5, 33572, 2, 0, <<97>>, <<>>),
            RawOf(5, 33572, 2, sum, <<98>>, Xyz) >>
    ELSE IF j = "links-last"
    THEN \* two names of one file of mode 0o100444, the payload with the last
         << RawOf(5, 33060, 2, 0, <<97>>, <<>>),
            RawOf(5, 33060, 2, sum, <<98>>, Xyz) >>
    ELSE IF j = "bad-check"
    THEN \* a file whose check is not the sum of its payload
         << RawOf(1, 33188, 1, bad, <<97>>, Xyz) >>
    ELSE IF j = "bad-link-check"
    THEN \* two names of one file, the payload with the first, the second
         \* with a check that is not the sum of the payload
         << RawOf(5, 33188, 2, sum, <<97>>, Xyz),
            RawOf(5, 33188, 2, bad, <<98>>, <<>>) >>
    ELSE IF j = "deep"
    THEN \* the directory d of mode 0, the directory d/e of mode 0o500 and the
         \* file d/e/f
         << RawOf(1, 16384, 3, 0, <<100>>, <<>>),
            RawOf(2, 16704, 2, 0, <<100, 47, 101>>, <<>>),
            RawOf(3, 33188, 1, sum, <<100, 47, 101, 47, 102>>, Xyz) >>
    ELSE IF j = "depth-first"
    THEN \* the file d/f, then the directory d of mode 0o500 that holds it
         << RawOf(2, 33188, 1, sum, <<100, 47, 102>>, Xyz),
            RawOf(1, 16704, 2, 0, <<100>>, <<>>) >>
    ELSE IF j = "nlink-one"
    THEN \* two files and a directory, each with nlink = 1 and the same (dev, ino)
         << RawOf(5, 33188, 1, sum, <<97>>, Xyz),
            RawOf(5, 33188, 1, sum, <<98>>, <<122, 121, 120>>),
            RawOf(5, 16877, 1, 0, <<100>>, <<>>) >>
    ELSE IF j = "same-ino"
    THEN \* two files of one inode number on two devices
         << RawOf(5, 33188, 1, sum, <<97>>, Xyz),
            [RawOf(5, 33188, 1, sum, <<98>>, <<122, 121, 120>>) EXCEPT !.md.dev = Dev2] >>
    ELSE \* "/o/x"
         << RawOf(1, 33188, 1, sum, <<47, 111, 47, 120>>, Xyz) >>

\* the bytes of the entries: header, name, payload, padding
RECURSIVE EncodeAll(_, _)
EncodeAll(entries, format) ==
    IF entries = <<>> THEN <<>>
    ELSE MetadataWrite(entries[1].md, format).out
         \o write_path(entries[1].path, format)
         \o entries[1].data
         \o write_file_padding(Len(entries[1].data), format)
         \o EncodeAll(Tail(entries), format)

\* a stream that ends inside the payload of its only entry: the header and
\* the name of the file "a" of 3 bytes, and 2 bytes of payload
CutPayload(format) ==
    MetadataWrite(RawOf(1, 33188, 1, IF format = "Crc" THEN 363 ELSE 0, <<97>>, Xyz).md,
                  format).out
        \o write_path(<<97>>, format) \o <<120, 121>>

InitUnpack ==
    /\ BuilderIdle
    /\ phase = "build"
    /\ CodecIdle
    /\ job \in TreeJobs \cup RawJobs
    /\ fs = TreeFs(job)
    /\ u = UnpackNew(Target)

\* Builder::append_dir_all on "/src", then Builder::finish
Pack ==
    /\ phase = "build"
    /\ job \in TreeJobs
    /\ \E r \in {append_dir_all(b, fs, Src)} :
           \E w \in {write_trailer(r.b)} :
               /\ b' = w.b
               /\ phase' = IF r.ok /\ w.ok THEN "finished" ELSE "error"
    /\ UNCHANGED <<log, a, live, entry, cur, got, codecVars, unpackVars>>

\* another program writes the archive of a raw job in the format chosen
Produce ==
    /\ phase = "build"
    /\ job \in RawJobs
    /\ b' = IF job = "cut-payload"
            THEN [b EXCEPT !.writer = CutPayload(b.format)]
            ELSE write_trailer([b EXCEPT !.writer =
                                    EncodeAll(RawEntries(job,
                                                         IF b.format = "Crc" THEN 363 ELSE 0,
                                                         IF b.format = "Crc" THEN 999 ELSE 0),
                                              b.format)]).b
    /\ phase' = "finished"
    /\ UNCHANGED <<log, a, live, entry, cur, got, codecVars, unpackVars>>

\* Archive::new, preserve_mtime, verify_crc and the head of Archive::unpack:
\* create_dir_all of the target directory
UnpackBegin(verify, preserve) ==
    /\ phase = "finished"
    /\ a' = [ArchiveNew(b.writer) EXCEPT !.verify_crc = verify, !.preserve_mtime = preserve]
    /\ \E r \in {create_dir_all(fs, Target)} :
           /\ fs' = r.fs
           /\ phase' = IF r.ok THEN "unpack" ELSE "failed"
    /\ u' = UnpackNew(Target)
    /\ UNCHANGED <<b, log, live, entry, cur, got, codecVars, job>>

\* one iteration of the loop of Archive::unpack: read_entry yields an entry
\* or fails
UnpackEntry ==
    /\ phase = "unpack"
    /\ \E r \in {read_entry(a)} :
           /\ r.kind # "none"
           /\ \E s \in {IF r.kind = "entry" THEN unpack_entry(fs, u, r.a, r.entry)
                        ELSE [ok |-> FALSE, fs |-> fs, u |-> u, a |-> r.a]} :
                  /\ fs' = s.fs
                  /\ a' = s.a
                  /\ phase' = IF s.ok THEN "unpack" ELSE "failed"
                  /\ u' = IF r.kind # "entry" THEN u
                          ELSE [s.u EXCEPT !.seen =
                                   Append(@, [md |-> r.entry.md, path |-> r.entry.path,
                                              format |-> r.entry.format,
                                              bytes |-> EntryRead(r.a, r.entry,
                                                            EntryRemaining(r.a, r.entry)).val])]
    /\ UNCHANGED <<b, log, live, entry, cur, got, codecVars, job>>

\* read_entry yields None: the loop ends and the directories are sorted
UnpackEnd ==
    /\ phase = "unpack"
    /\ \E r \in {read_entry(a)} :
           /\ r.kind = "none"
           /\ a' = r.a
    /\ u' = [u EXCEPT !.dirs = SortDirs(@)]
    /\ phase' = IF u.dirs = <<>> THEN "done" ELSE "perms"
    /\ UNCHANGED <<b, log, live, entry, cur, got, codecVars, fs, job>>

\* one iteration of the loop that applies the permissions of the
\* directories; u.dirs holds the directories still to come
ApplyDirMode ==
    /\ phase = "perms"
    /\ \E p \in {set_permissions(fs, u.dirs[1][1], u.dirs[1][2])} :
           /\ fs' = p.fs
           /\ u' = IF p.ok THEN [u EXCEPT !.dirs = Tail(@)] ELSE u
           /\ phase' = IF ~p.ok THEN "failed"
                       ELSE IF Len(u.dirs) = 1 THEN "done" ELSE "perms"
    /\ UNCHANGED <<b, log, a, live, entry, cur, got, codecVars, job>>

NextUnpack ==
    \/ \E f \in Formats \ {"Newc"} : SetFormat(f)
    \/ Pack
    \/ Produce
    \/ \E verify, preserve \in BOOLEAN : UnpackBegin(verify, preserve)
    \/ UnpackEntry
    \/ UnpackEnd
    \/ ApplyDirMode

SpecUnpack == InitUnpack /\ [][NextUnpack]_vars

(***************************************************************************)
(* SpecField: one fixed-width field is written by a write function of      *)
(* io.rs and the bytes are read back by the matching read function.  cf is *)
(* the field kind, cm the value, cw the result of the write and cr the     *)
(* result of the read.                                                     *)
(***************************************************************************)
FieldKinds == {"octal_6", "octal_11", "hex_8", "u16_le", "u16_be", "u32_le", "u32_be"}

\* The type of the value the write function takes, as a width in bits.
FieldBits(kind) ==
    IF kind = "octal_11" THEN 64 ELSE IF kind \in {"u16_le", "u16_be"} THEN 16 ELSE 32

\* The number of bytes of the field.
FieldWidth(kind) ==
    IF kind = "octal_6" THEN 6
    ELSE IF kind = "octal_11" THEN 11
    ELSE IF kind = "hex_8" THEN 8
    ELSE IF kind \in {"u16_le", "u16_be"} THEN 2
    ELSE 4

\* Values of w bits: the powers of two, the numbers 2^k - 1, and numbers
\* whose bytes all differ.
FieldValues(w) ==
    {Pow2Bits(k, w) : k \in 0..(w - 1)} \cup {MaxBits(k, w) : k \in 0..w}
        \cup {Cast(U32(19088743), w), Cast(U32(19088743) \o U32(36984440), w)}

FieldWriteOf(kind, value) ==
    IF kind = "octal_6" THEN write_octal_6(value)
    ELSE IF kind = "octal_11" THEN write_octal_11(value)
    ELSE IF kind = "hex_8" THEN write_hex_8(value)
    ELSE IF kind = "u16_le" THEN write_binary_u16_le(value)
    ELSE IF kind = "u16_be" THEN write_binary_u16_be(value)
    ELSE IF kind = "u32_le" THEN write_binary_u32_le(value)
    ELSE write_binary_u32_be(value)

FieldReadOf(kind, s, p) ==
    IF kind = "octal_6" THEN read_octal_6(s, p)
    ELSE IF kind = "octal_11" THEN read_octal_11(s, p)
    ELSE IF kind = "hex_8" THEN read_hex_8(s, p)
    ELSE IF kind = "u16_le" THEN read_binary_u16_le(s, p)
    ELSE IF kind = "u16_be" THEN read_binary_u16_be(s, p)
    ELSE IF kind = "u32_le" THEN read_binary_u32_le(s, p)
    ELSE read_binary_u32_be(s, p)

InitField ==
    /\ BuilderIdle
    /\ phase = "write"
    /\ cf \in FieldKinds
    /\ cm \in FieldValues(FieldBits(cf))
    /\ cw = Err(<<>>)
    /\ cr = NoRead
    /\ UnpackIdle

\* write_octal_6 .. write_binary_u32_be
FieldWrite ==
    /\ phase = "write"
    /\ cw' = FieldWriteOf(cf, cm)
    /\ phase' = "written"
    /\ UNCHANGED <<b, log, a, live, entry, cur, got, cm, cf, cr, unpackVars>>

\* read_octal_6 .. read_binary_u32_be on the bytes of a write that returned Ok
FieldRead ==
    /\ phase = "written"
    /\ cw.ok
    /\ cr' = FieldReadOf(cf, cw.out, 0)
    /\ phase' = "decoded"
    /\ UNCHANGED <<b, log, a, live, entry, cur, got, cm, cf, cw, unpackVars>>

NextField ==
    \/ FieldWrite
    \/ FieldRead

SpecField == InitField /\ [][NextField]_vars

(***************************************************************************)
(* SpecDev: a device number is made of a major and a minor number by       *)
(* makedev and split again by major and minor.  cm is the pair, cw the     *)
(* device number and cr the pair split off it.                             *)
(***************************************************************************)
InitDev ==
    /\ BuilderIdle
    /\ phase = "write"
    /\ cf = "dev"
    /\ cm \in FieldValues(32) \X FieldValues(32)
    /\ cw = U64(0)
    /\ cr = <<U32(0), U32(0)>>
    /\ UnpackIdle

\* makedev
DevMake ==
    /\ phase = "write"
    /\ cw' = makedev(cm[1], cm[2])
    /\ phase' = "written"
    /\ UNCHANGED <<b, log, a, live, entry, cur, got, cm, cf, cr, unpackVars>>

\* major, minor
DevSplit ==
    /\ phase = "written"
    /\ cr' = <<major(cw), minor(cw)>>
    /\ phase' = "decoded"
    /\ UNCHANGED <<b, log, a, live, entry, cur, got, cm, cf, cw, unpackVars>>

NextDev ==
    \/ DevMake
    \/ DevSplit

SpecDev == InitDev /\ [][NextDev]_vars

(***************************************************************************)
(* SpecStream: an Archive reads a stream that was not written by one       *)
(* Builder: archives put one after the other, an archive followed by the   *)
(* zero bytes of a block, an archive cut short, hard-link groups.  job is  *)
(* [name, format, cut], log holds one record per call of read_entry.       *)
(***************************************************************************)
StreamNames == {"concat", "zeros", "cut", "cut-first", "links", "links-both", "bad-type"}

\* The most bytes an archive is cut short after a header boundary.
MaxCut == 6

\* The most calls of read_entry on one Archive.
MaxCalls == 5

TrailerBytes(format) == write_trailer([BuilderNew EXCEPT !.format = format]).b.writer

StreamEntries(name, sum, other) ==
    IF name = "links"
    THEN \* two names of one file, the payload with the first
         << RawOf(5, 33188, 2, sum, <<97>>, Xyz),
            RawOf(5, 33188, 2, sum, <<98>>, <<>>) >>
    ELSE IF name = "links-both"
    THEN \* two names of one file, each with a payload, and a third name
         \* without one
         << RawOf(5, 33188, 2, sum, <<97>>, Xyz),
            RawOf(5, 33188, 2, other, <<98>>, <<112, 113, 114>>),
            RawOf(5, 33188, 2, other, <<99>>, <<>>) >>
    ELSE IF name = "bad-type"
    THEN \* an entry whose file type is 0o07, which is no file type
         << RawOf(1, 29092, 1, sum, <<97>>, Xyz) >>
    ELSE << RawOf(1, 33188, 1, sum, <<97>>, Xyz) >>

StreamArchive(name, format) ==
    EncodeAll(StreamEntries(name, IF format = "Crc" THEN 363 ELSE 0,
                            IF format = "Crc" THEN 339 ELSE 0), format)

StreamOf(name, format, cut) ==
    IF name = "concat"
    THEN StreamArchive(name, format) \o TrailerBytes(format)
         \o EncodeAll(<<RawOf(2, 33188, 1, IF format = "Crc" THEN 363 ELSE 0, <<98>>, Xyz)>>,
                      format)
         \o TrailerBytes(format)
    ELSE IF name = "zeros"
    THEN StreamArchive(name, format) \o TrailerBytes(format) \o Zeros(8)
    ELSE IF name = "cut"
    THEN StreamArchive(name, format) \o SubSeq(TrailerBytes(format), 1, cut)
    ELSE IF name = "cut-first"
    THEN SubSeq(StreamArchive(name, format), 1, cut)
    ELSE StreamArchive(name, format) \o TrailerBytes(format)

InitStream ==
    /\ b = BuilderNew
    /\ log = <<>>
    /\ \E name \in StreamNames, format \in Formats, cut \in 0..MaxCut, verify \in BOOLEAN :
           /\ name \notin {"cut", "cut-first"} => cut = 0
           /\ job = [name |-> name, format |-> format, cut |-> cut]
           /\ a = [ArchiveNew(StreamOf(name, format, cut)) EXCEPT !.verify_crc = verify]
    /\ live = FALSE
    /\ entry = NoEntry
    /\ cur = <<>>
    /\ got = <<>>
    /\ phase = "read"
    /\ CodecIdle
    /\ fs = <<>>
    /\ u = UnpackNew(<<>>)

\* Archive::read_entry, called again after it returned none
StreamReadEntry ==
    /\ phase \in {"read", "end"}
    /\ ~live
    /\ Len(log) < MaxCalls
    /\ \E r \in {read_entry(a)} :
           /\ a' = r.a
           /\ live' = (r.kind = "entry")
           /\ entry' = r.entry
           /\ phase' = IF r.kind = "none" THEN "end"
                       ELSE IF r.kind = "err" THEN "error" ELSE "read"
           /\ got' = IF r.kind = "entry"
                     THEN Append(got, <<r.entry.path, r.entry.md>>) ELSE got
           /\ log' = Append(log, [kind |-> r.kind, start |-> a.pos, stop |-> r.a.pos,
                                  header |-> read_some(a.stream, a.pos).kind,
                                  cached |-> a.contents,
                                  md |-> r.entry.md,
                                  reader |-> r.entry.reader])
    /\ cur' = <<>>
    /\ UNCHANGED <<b, codecVars, unpackVars>>

NextStream ==
    \/ StreamReadEntry
    \/ ReadByte
    \/ DropEntry

SpecStream == InitStream /\ [][NextStream]_vars

(***************************************************************************)
(* SpecName: one call of append_entry on a new Builder with an inner path  *)
(* of a given length, up to the longest names of bin and odc.  cm is       *)
(* [len, input], cf the format, cw whether the call returned Ok, b the     *)
(* builder after the call.                                                 *)
(***************************************************************************)
\* The lengths of the inner path: short ones, and those around 0xFFFF and
\* 0o777777.
NameLens == {0, 1, 2, 65534, 65535, 262142, 262143}

\* The inputs whose Metadata and data are appended: one that fits every
\* format, one whose data is longer than its file_size, one whose mtime is
\* 2^32.
NameInputs == {1, 6, 8}

\* A path of len bytes "a".
LongPath(len) == [i \in 1..len |-> 97]

InitName ==
    /\ \E format \in Formats : b = [BuilderNew EXCEPT !.format = format]
    /\ cf = b.format
    /\ cm \in [len : NameLens, input : NameInputs]
    /\ cw = FALSE
    /\ cr = NoRead
    /\ phase = "write"
    /\ log = <<>>
    /\ a = ArchiveNew(<<>>)
    /\ live = FALSE
    /\ entry = NoEntry
    /\ cur = <<>>
    /\ got = <<>>
    /\ UnpackIdle

\* Builder::append_entry
NameAppend ==
    /\ phase = "write"
    /\ \E r \in {append_entry(b, Inputs[cm.input].md, LongPath(cm.len), Inputs[cm.input].data)} :
           /\ b' = r.b
           /\ cw' = r.ok
    /\ phase' = "written"
    /\ UNCHANGED <<log, a, live, entry, cur, got, cm, cf, cr, unpackVars>>

\* Metadata::read_some on the bytes the call wrote
NameRead ==
    /\ phase = "written"
    /\ cr' = read_some(b.writer, 0)
    /\ phase' = "decoded"
    /\ UNCHANGED <<b, log, a, live, entry, cur, got, cm, cf, cw, unpackVars>>

NextName ==
    \/ NameAppend
    \/ NameRead

SpecName == InitName /\ [][NextName]_vars

\* ---- the builder with a metadata editor ----
\* Builder::with_metadata_editor with each of the editors, set_format,
\* append_entry with the inputs (and with the first input under a name of
\* u16::MAX bytes, which bin refuses), finish.  A log record keeps the
\* number of calls the editor had received before and after the call.

InitEditor ==
    /\ \E kind \in Editors : b = with_metadata_editor([kind |-> kind, calls |-> <<>>])
    /\ phase = "build"
    /\ log = <<>>
    /\ a = ArchiveNew(<<>>)
    /\ live = FALSE
    /\ entry = NoEntry
    /\ cur = <<>>
    /\ got = <<>>
    /\ CodecIdle
    /\ UnpackIdle

EditorAppend(i, long) ==
    /\ phase = "build"
    /\ Len(log) < MaxEntries
    /\ long => i = 1
    /\ \E r \in {append_entry(b, Inputs[i].md,
                              IF long THEN LongPath(65535) ELSE Inputs[i].path,
                              Inputs[i].data)} :
           /\ b' = r.b
           /\ log' = Append(log, [input |-> i, long |-> long, ok |-> r.ok, md |-> r.md,
                                  start |-> Len(b.writer), stop |-> Len(r.b.writer),
                                  before |-> Len(b.metadata_editor.calls),
                                  after |-> Len(r.b.metadata_editor.calls)])
    /\ UNCHANGED <<phase, a, live, entry, cur, got, codecVars, unpackVars>>

NextEditor ==
    \/ \E format \in Formats : SetFormat(format)
    \/ \E i \in DOMAIN Inputs, long \in BOOLEAN : EditorAppend(i, long)
    \/ Finish

SpecEditor == InitEditor /\ [][NextEditor]_vars

\* ---- the loop over the entries of a stream ----
\* `while let Some(entry) = archive.read_entry()? { drop(entry) }` on the
\* streams of the reader: read_entry is called until it returns none or an
\* error, and each entry it yields is dropped.

LoopReadEntry ==
    /\ phase = "read"
    /\ ~live
    /\ \E r \in {read_entry(a)} :
           /\ a' = r.a
           /\ live' = (r.kind = "entry")
           /\ entry' = r.entry
           /\ phase' = IF r.kind = "none" THEN "end"
                       ELSE IF r.kind = "err" THEN "error" ELSE "read"
    /\ UNCHANGED <<b, log, cur, got, codecVars, unpackVars>>

NextLoop ==
    \/ LoopReadEntry
    \/ DropEntry

\* LoopReadEntry can be taken exactly in the states of LoopCalls, and each
\* step of it leaves them (the entry is live, or the loop has ended).
LoopCalls == phase = "read" /\ ~live

\* The loop keeps running: an entry that was yielded is dropped, and
\* read_entry is called again after that.  The second condition is
\* WF_vars(LoopReadEntry), written with the states in which the action can
\* be taken.
SpecLoop ==
    /\ InitStream
    /\ [][NextLoop]_vars
    /\ WF_vars(DropEntry)
    /\ []<>~LoopCalls

\* ---- the readers of the text fields on arbitrary bytes ----
\* read_octal_6, read_hex_8 and read_octal_11 on the fields that differ from
\* a field of '0' in at most two bytes; the bytes are digits of both bases,
\* of one, of none, signs, a blank, NUL and a byte that is no UTF-8.

ParseKinds == {"octal_6", "octal_11", "hex_8"}

ParseBytes == {48, 55, 56, 97, 102, 103, 70, 71, 43, 45, 32, 0, 200}

ParseField(n, i, c, j, d) == [k \in 1..n |-> IF k = i THEN c ELSE IF k = j THEN d ELSE 48]

InitParse ==
    /\ BuilderIdle
    /\ phase = "written"
    /\ cf \in ParseKinds
    /\ cm = NoMetadata
    /\ \E i, j \in 1..FieldWidth(cf), c, d \in ParseBytes :
           cw = Ok(ParseField(FieldWidth(cf), i, c, j, d))
    /\ cr = NoRead
    /\ UnpackIdle

\* read_octal_6, read_hex_8, read_octal_11
ParseRead ==
    /\ phase = "written"
    /\ cr' = FieldReadOf(cf, cw.out, 0)
    /\ phase' = "decoded"
    /\ UNCHANGED <<b, log, a, live, entry, cur, got, cm, cf, cw, unpackVars>>

SpecParse == InitParse /\ [][ParseRead]_vars

\* ---- CLAIMS ----
(***************************************************************************)
(* Properties of Spec                                                      *)
(***************************************************************************)
\* every call of append_entry so far returned Ok
AllOk == \A k \in 1..Len(log) : log[k].ok

\* the k-th call was made with a (dev, ino) an earlier call was made with
Seen(k) ==
    \E j \in 1..(k - 1) :
        MetadataId(Inputs[log[j].input].md) = MetadataId(Inputs[log[k].input].md)

\* the first call made with the (dev, ino) of the k-th call
PrimaryOf(k) ==
    CHOOSE j \in 1..k :
        /\ MetadataId(Inputs[log[j].input].md) = MetadataId(Inputs[log[k].input].md)
        /\ \A i \in 1..(j - 1) :
               MetadataId(Inputs[log[i].input].md) # MetadataId(Inputs[log[k].input].md)

\* the bytes the k-th call put on the writer, the header decoded from them,
\* the offset in them at which the name and its padding end, and the bytes
\* that follow the name
Wire(k) == SubSeq(b.writer, log[k].start + 1, log[k].stop)
WireHeader(k) == read_some(Wire(k), 0)
WireNameEnd(k) ==
    read_path_buf(Wire(k), WireHeader(k).pos, Len(Inputs[log[k].input].path) + 1,
                  b.format).pos
WireAfterName(k) == SubSeq(Wire(k), WireNameEnd(k) + 1, Len(Wire(k)))

\* C1: when every append_entry call succeeded and the archive was finished,
\* read_entry yields one entry per call, in call order, with the call's
\* inner path and the Metadata the call returned, and then returns none
\* (the reader is the one Archive::new makes: verify_crc off).
C1_WriteRead ==
    (AllOk /\ ~a.verify_crc /\ phase \in {"end", "error"}) =>
        /\ phase = "end"
        /\ Len(got) = Len(log)
        /\ \A k \in 1..Len(log) :
               got[k] = <<Inputs[log[k].input].path, log[k].md>>

\* C3: in an archive the builder wrote without a failing call, once an entry
\* is dropped, however many of its bytes were read, the stream stands at the
\* first byte of the next header (the next call's first byte, or the
\* trailer's), and a read_entry that ends in an error is one that verify_crc
\* made fail on a check that is not the sum of the entry's payload.
NextHeaderStart ==
    IF Len(got) < Len(log) THEN log[Len(got) + 1].start
    ELSE IF log = <<>> THEN 0 ELSE log[Len(log)].stop

C6_SecondaryOnWire ==
    \A k \in 1..Len(log) :
        (Seen(k) /\ log[k].ok) =>
            /\ WireHeader(k).kind = "some"
            /\ IF IsNewcLike(b.format)
               THEN /\ IsZero(WireHeader(k).md.file_size)
                    /\ WireAfterName(k) = <<>>
               ELSE /\ WireHeader(k).md.file_size = Inputs[log[k].input].md.file_size
                    /\ WireAfterName(k) =
                           IF IsZero(Inputs[log[k].input].md.file_size) THEN <<>>
                           ELSE Inputs[log[k].input].data
                                  \o write_file_padding(Len(Inputs[log[k].input].data),
                                                        b.format)

\* C6 happens: the second name of the file "xyz" was appended to a newc
\* archive.
C6_Witness ==
    /\ b.format = "Newc"
    /\ Len(log) = 2 /\ log[1].input = 1 /\ log[2].input = 2
    /\ log[1].ok /\ log[2].ok
    /\ Len(Wire(1)) > Len(Wire(2))

\* C7: in crc, the header of every hard-link secondary of a regular file
\* carries the check written in the header of the primary of its group.
C7_SecondaryCheck ==
    b.format = "Crc" =>
        \A k \in 1..Len(log) :
            (Seen(k) /\ log[k].ok /\ log[PrimaryOf(k)].ok
                /\ is_file(Inputs[log[k].input].md)) =>
                WireHeader(k).md.check = WireHeader(PrimaryOf(k)).md.check

\* C8: in crc, the header of every regular file written as the primary of
\* its (dev, ino) carries the sum of the file's bytes, and the payload after
\* the name is those bytes.
C8_PrimaryCheck ==
    b.format = "Crc" =>
        \A k \in 1..Len(log) :
            (~Seen(k) /\ log[k].ok /\ is_file(Inputs[log[k].input].md)) =>
                /\ WireHeader(k).md.check = CrcSum(Inputs[log[k].input].data)
                /\ SubSeq(WireAfterName(k), 1,
                          Min2(Len(Inputs[log[k].input].data), Len(WireAfterName(k))))
                       = Inputs[log[k].input].data

(***************************************************************************)
(* Properties of SpecCodec                                                 *)
(***************************************************************************)
\* every field of md fits the width the format stores it in; dev and rdev
\* fit bin when their major and minor numbers fit 8 bits each
FitsFormat(md, format) ==
    IF IsBin(format)
    THEN /\ Fits(major(md.dev), 8) /\ Fits(minor(md.dev), 8)
         /\ Fits(major(md.rdev), 8) /\ Fits(minor(md.rdev), 8)
         /\ Fits(md.ino, 16) /\ Fits(md.mode, 16) /\ Fits(md.uid, 16)
         /\ Fits(md.gid, 16) /\ Fits(md.nlink, 16) /\ Fits(md.name_len, 16)
         /\ Fits(md.mtime, 32) /\ Fits(md.file_size, 32)
         /\ IsZero(md.check)
    ELSE IF format = "Odc"
    THEN /\ Fits(md.dev, 18) /\ Fits(md.rdev, 18) /\ Fits(md.ino, 18)
         /\ Fits(md.mode, 18) /\ Fits(md.uid, 18) /\ Fits(md.gid, 18)
         /\ Fits(md.nlink, 18) /\ Fits(md.name_len, 18)
         /\ Fits(md.mtime, 33) /\ Fits(md.file_size, 33)
         /\ IsZero(md.check)
    ELSE /\ Fits(md.ino, 32) /\ Fits(md.mtime, 32) /\ Fits(md.file_size, 32)

\* C10: in each format, a Metadata whose fields fit the format is written
\* without error, and read_some on the bytes written returns a Metadata equal
\* to it in every field together with the format it was written in.
C10_HeaderRoundTrip ==
    FitsFormat(cm, cf) =>
        /\ phase # "write" => cw.ok
        /\ phase = "decoded" => (cr.kind = "some" /\ cr.md = cm /\ cr.format = cf)

\* C10 happens: a Metadata with the largest mtime and file_size of bin was
\* written in little-endian bin and read back.
C10_Witness ==
    /\ phase = "decoded"
    /\ cf = "BinLE"
    /\ FitsFormat(cm, cf)
    /\ IsMax(cm.mtime, 32)
    /\ cr.kind = "some"


(***************************************************************************)
(* Properties of SpecUnpack                                                *)
(***************************************************************************)
\* <<path, inode>> of every entry below the directory ino, no symbolic link
\* followed
RECURSIVE ListFrom(_, _, _)
ListFrom(f, ino, prefix) ==
    UNION {{<<Append(prefix, nm), f[ino].ents[nm]>>}
           \cup (IF f[f[ino].ents[nm]].kind = "Directory"
                 THEN ListFrom(f, f[ino].ents[nm], Append(prefix, nm))
                 ELSE {}) : nm \in DOMAIN f[ino].ents}

Listing(f, directory) ==
    LET r == Lookup(f, directory, FALSE)
    IN  IF r.res = "found" THEN ListFrom(f, r.ino, <<>>) ELSE {}

\* two trees with the same relative paths and, per path, the same file
\* type, mode and payload, the same mtime when with_mtime is set, and the
\* same classes of hard links
SameTree(f, d1, d2, with_mtime) ==
    LET l1 == Listing(f, d1)
        l2 == Listing(f, d2)
    IN  /\ {e[1] : e \in l1} = {e[1] : e \in l2}
        /\ \A e1 \in l1, e2 \in l2 :
               e1[1] = e2[1] =>
                   /\ f[e1[2]].kind = f[e2[2]].kind
                   /\ f[e1[2]].mode = f[e2[2]].mode
                   /\ f[e1[2]].data = f[e2[2]].data
                   /\ with_mtime => f[e1[2]].mtime = f[e2[2]].mtime
        /\ \A e1 \in l1, g1 \in l1, e2 \in l2, g2 \in l2 :
               (e1[1] = e2[1] /\ g1[1] = g2[1]) => ((e1[2] = g1[2]) <=> (e2[2] = g2[2]))

\* the unpacker has returned
Unpacked == phase \in {"done", "failed"}

\* C2: in every format, a tree packed by the Builder and unpacked with
\* preserve_mtime on is unpacked without error to a tree with the same
\* relative paths and, per path, the same file type and mode, the same
\* payload, the same mtime, and the same classes of hard links.
C2_PackUnpack ==
    (job \in TreeJobs /\ a.preserve_mtime /\ Unpacked) =>
        (phase = "done" /\ SameTree(fs, Src, Target, TRUE))

\* what lies outside the target directory: path, inode number, file type,
\* mode, payload
Outside(f) ==
    {<<e[1], e[2], f[e[2]].kind, f[e[2]].mode, f[e[2]].data>> :
        e \in {x \in ListFrom(f, 1, <<>>) : ~StartsWith(x[1], Target)}}

\* C4: whatever the archive, Archive::unpack creates, writes and links
\* nothing outside the target directory.
C4_NothingOutside ==
    phase \in {"unpack", "perms", "done", "failed"} => Outside(fs) = Outside(TreeFs(job))

\* the inode of a path of the target directory, 0 when there is none
TargetInode(name) ==
    LET r == Lookup(fs, Append(Target, name), FALSE)
    IN  IF r.res = "found" THEN r.ino ELSE 0

\* C5: a newc or crc archive with the names a and b of one inode and the
\* payload "xyz" is unpacked to two paths that are one file whose contents
\* are "xyz".
C5_HardLinksUnpacked ==
    (/\ job \in {"links", "links-last", "links-last-sticky"}
     /\ IsNewcLike(b.format)
     /\ Unpacked) =>
        /\ phase = "done"
        /\ TargetInode(<<97>>) # 0
        /\ TargetInode(<<97>>) = TargetInode(<<98>>)
        /\ fs[TargetInode(<<97>>)].data = Xyz

\* C9: with verify_crc on, read_entry yields no regular-file entry of the
\* crc format whose bytes do not sum to the check of its header.
C9_MismatchRejected ==
    a.verify_crc =>
        \A k \in 1..Len(u.seen) :
            (u.seen[k].format = "Crc" /\ FileTypeNew(u.seen[k].md.mode) = "Regular") =>
                CrcSum(u.seen[k].bytes) = u.seen[k].md.check

\* Every field other than mtime fits its on-disk width in the format (check
\* has no field in odc and bin and is left out).
OthersFit(md, format) ==
    FitsFormat([md EXCEPT !.mtime = Bits(0, 64), !.check = Bits(0, 32)], format)

\* mtime exceeds the on-disk width of the format: 11 octal digits in odc, 32
\* bits in newc, crc and bin.
MtimeExceeds(md, format) == ~Fits(md.mtime, IF format = "Odc" THEN 33 ELSE 32)

\* C11: writing a Metadata fails exactly when a field other than mtime exceeds
\* its on-disk width; an mtime that exceeds the width does not make the write
\* fail, and the header written then carries mtime zero.
C11_MtimeZeroed ==
    /\ phase # "write" => (cw.ok <=> OthersFit(cm, cf))
    /\ (phase = "decoded" /\ MtimeExceeds(cm, cf)) =>
           (cr.kind = "some" /\ IsZero(cr.md.mtime))

\* The values the field holds: 0..=0o777777 for octal-6, 0..=0o77777777777
\* for octal-11, every value of the type for the others.
InFieldRange(kind, value) ==
    IF kind = "octal_6" THEN Fits(value, MAX_6_BITS)
    ELSE IF kind = "octal_11" THEN Fits(value, MAX_11_BITS)
    ELSE TRUE

\* C12: for every value in the range of a field, the write function succeeds
\* and emits exactly the field's fixed width (6, 11, 8, 2 or 4 bytes), and the
\* matching read function returns the value from these bytes.
C12_FieldRoundTrip ==
    InFieldRange(cf, cm) =>
        /\ phase # "write" => (cw.ok /\ Len(cw.out) = FieldWidth(cf))
        /\ phase = "decoded" => (cr.ok /\ cr.val = cm /\ cr.pos = FieldWidth(cf))

\* C12 happens: a 32-bit value whose four bytes differ was written as a
\* little-endian binary field and read back.
C12_Witness ==
    /\ phase = "decoded"
    /\ cf = "u32_le"
    /\ cm = U32(19088743)
    /\ cr.ok

\* C13: for every pair (major, minor) of 32-bit values, major and minor of
\* makedev(major, minor) are the major and the minor of the pair.
C13_MakedevSymmetry ==
    phase = "decoded" => (cr[1] = cm[1] /\ cr[2] = cm[2])

\* C13 happens: a pair whose major and minor both have bits above the low
\* 12 and 8 was made into a device number and split again.
C13_Witness ==
    /\ phase = "decoded"
    /\ cm = <<MaxBits(32, 32), U32(19088743)>>
    /\ cr = cm

\* The i-th call of read_entry returned none because it decoded a header
\* whose name is TRAILER!!!.
TrailerCall(i) == log[i].kind = "none" /\ log[i].header = "some"

\* C14: once read_entry has returned none at a trailer, every later call of
\* read_entry on the same Archive returns none, whatever follows the trailer.
C14_NoneAfterTrailer ==
    \A i, j \in 1..Len(log) : (i < j /\ TrailerCall(i)) => log[j].kind = "none"

\* The bytes of the stream from the position where the i-th call of
\* read_entry started.
Available(i) == SubSeq(a.stream, log[i].start + 1, Len(a.stream))

\* The read of the magic obtains some but not all bytes of a magic: one byte
\* of the first two, or fewer than four bytes after two that are not the
\* magic of bin.
PartialMagic(bytes) ==
    \/ Len(bytes) = 1
    \/ /\ Len(bytes) >= BIN_MAGIC_LEN
       /\ Len(bytes) < MAGIC_LEN
       /\ SubSeq(bytes, 1, BIN_MAGIC_LEN) \notin {BIN_LE_MAGIC, BIN_BE_MAGIC}

\* C15: read_entry returns none for the end of the stream only when the read
\* of the magic obtains no byte; when it obtains some but not all bytes of a
\* magic, read_entry returns an error.
C15_PartialMagicIsError ==
    \A i \in 1..Len(log) :
        /\ (log[i].kind = "none" /\ log[i].header = "none") => Available(i) = <<>>
        /\ PartialMagic(Available(i)) => log[i].kind = "err"

\* The length of the header of a format.
HeaderLen(format) == IF IsBin(format) THEN 26 ELSE IF format = "Odc" THEN 76 ELSE 110

\* The fewest NUL bytes that make n a multiple of the alignment.
FewestPad(n, align) ==
    CHOOSE k \in 0..(align - 1) :
        /\ (n + k) % align = 0
        /\ \A m \in 0..(align - 1) : (n + m) % align = 0 => k <= m

\* The name padding of a format after a name of name_len bytes (NUL
\* included).
NamePad(name_len, format) ==
    IF IsNewcLike(format) THEN FewestPad(110 + name_len, 4)
    ELSE IF IsBin(format) THEN FewestPad(name_len, 2)
    ELSE 0

\* t is one trailer entry in the format: a header with every field zero
\* except name_len = 11, the bytes TRAILER!!!, one NUL, the name padding.
IsTrailerEntry(t, format) ==
    LET Decoded(h) ==
            /\ h.kind = "some"
            /\ h.format = format
            /\ h.pos = HeaderLen(format)
            /\ h.md.name_len = U32(11)
            /\ \A fld \in DOMAIN h.md \ {"name_len"} : IsZero(h.md[fld])
    IN  /\ Decoded(read_some(t, 0))
        /\ SubSeq(t, HeaderLen(format) + 1, Len(t))
               = <<84, 82, 65, 73, 76, 69, 82, 33, 33, 33, 0>> \o Zeros(NamePad(11, format))

\* The bytes of the archive before Builder::finish was called.
PackedBody == append_dir_all([BuilderNew EXCEPT !.format = b.format], TreeFs(job), Src).b.writer

\* The entries below the target directory.
TargetListing == Listing(fs, Target)

\* C16: Builder::finish writes exactly one trailer entry after the bytes
\* written before: a header in the builder's format with every field zero
\* except name_len = 11, then TRAILER!!!, one NUL and the name padding of the
\* format.  When no entry was appended the archive holds these bytes alone,
\* and reading or unpacking it yields no entry.
C16_OneTrailer ==
    (job \in TreeJobs /\ phase \in {"finished", "unpack", "perms", "done", "failed"}) =>
        LET Split2(body) ==
                /\ Len(body) <= Len(b.writer)
                /\ SubSeq(b.writer, 1, Len(body)) = body
                /\ IsTrailerEntry(SubSeq(b.writer, Len(body) + 1, Len(b.writer)), b.format)
                /\ job = "empty" => body = <<>>
        IN  /\ Split2(PackedBody)
            /\ job = "empty" =>
                   /\ phase # "failed"
                   /\ u.seen = <<>>
                   /\ phase = "done" => TargetListing = {}

\* C16 happens: the newc archive of an empty directory, 124 bytes, was
\* unpacked.
C16_Witness ==
    /\ job = "empty"
    /\ phase = "done"
    /\ b.format = "Newc"
    /\ Len(b.writer) = 124
    /\ fs # TreeFs("empty")

\* The alignment of a format, 1 when it has none.
AlignOf(format) == IF IsNewcLike(format) THEN 4 ELSE IF IsBin(format) THEN 2 ELSE 1

\* The bytes the k-th call wrote are the header, the path, one NUL, the
\* fewest NUL bytes of name padding, then the payload of the file_size the
\* header carries and, after a non-empty payload, the fewest NUL bytes that
\* make file_size a multiple of the alignment.
EntryLayout(k) ==
    LET Layout(path, hdr, size) ==
            /\ SubSeq(Wire(k), hdr + 1, hdr + Len(path) + 1 + NamePad(Len(path) + 1, b.format))
                   = path \o <<0>> \o Zeros(NamePad(Len(path) + 1, b.format))
            /\ Len(Wire(k)) = hdr + Len(path) + 1 + NamePad(Len(path) + 1, b.format)
                                  + size + FewestPad(size, AlignOf(b.format))
            /\ SubSeq(Wire(k), Len(Wire(k)) - FewestPad(size, AlignOf(b.format)) + 1,
                      Len(Wire(k))) = Zeros(FewestPad(size, AlignOf(b.format)))
    IN  Layout(Inputs[log[k].input].path, HeaderLen(b.format), AsLen(log[k].md.file_size))

\* The offset at which the trailer starts.
TrailerStart == IF log = <<>> THEN 0 ELSE log[Len(log)].stop

RECURSIVE NodeAt(_, _, _)
NodeAt(f, ino, comps) ==
    IF comps = <<>> THEN ino
    ELSE IF Head(comps) \in DOMAIN f[ino].ents
    THEN NodeAt(f, f[ino].ents[Head(comps)], Tail(comps))
    ELSE 0

\* The path under the target directory at which an entry is materialized.
UnpackPath(e) == Normalize(Components(e.path).comps, Target)

\* The entries unpack has met that are of a file type.
SeenOfType(type) ==
    {u.seen[i] : i \in {k \in 1..Len(u.seen) : FileTypeNew(u.seen[k].md.mode) = type}}

\* The directories whose modes are still to be applied.
DirsToCome == {u.dirs[i][1] : i \in 1..Len(u.dirs)}

\* C18: unpack leaves every directory an entry made with the mode it was
\* created with until every entry is materialized; it then applies the modes
\* so that of two directory entries of which one is an ancestor of the other
\* the descendant's mode is applied first; in the end every directory entry
\* has the mode of its header, and every regular file of the archive is in
\* place with its payload, also inside a directory of mode 0o500.
C18_DirModesLast ==
    /\ phase = "unpack" =>
           \A i \in 1..Len(u.dirs) : fs[NodeAt(fs, 1, u.dirs[i][1])].mode = 493
    /\ phase = "perms" =>
           \A x, y \in SeenOfType("Directory") :
               (/\ UnpackPath(x) # UnpackPath(y)
                /\ StartsWith(UnpackPath(y), UnpackPath(x))
                /\ UnpackPath(x) \notin DirsToCome) => UnpackPath(y) \notin DirsToCome
    /\ (SeenOfType("Directory") # {} /\ phase \in {"done", "failed"}) =>
           /\ phase = "done"
           /\ \A d \in SeenOfType("Directory") :
                  /\ NodeAt(fs, 1, UnpackPath(d)) # 0
                  /\ fs[NodeAt(fs, 1, UnpackPath(d))].kind = "Directory"
                  /\ fs[NodeAt(fs, 1, UnpackPath(d))].mode = file_mode(d.md.mode)
           /\ \A e \in SeenOfType("Regular") :
                  /\ NodeAt(fs, 1, UnpackPath(e)) # 0
                  /\ fs[NodeAt(fs, 1, UnpackPath(e))].data = e.bytes

\* C18 happens: the directory d of mode 0, the directory d/e of mode 0o500
\* and the file d/e/f were unpacked, and d/e has got its mode while d has
\* not.
C18_Witness ==
    /\ job = "deep"
    /\ phase = "perms"
    /\ DirsToCome = {Target \o << <<100>> >>}
    /\ fs[NodeAt(fs, 1, Target \o << <<100>>, <<101>> >>)].mode = 320
    /\ fs[NodeAt(fs, 1, Target \o << <<100>>, <<101>>, <<102>> >>)].data = Xyz

\* The i-th call of read_entry yielded, in newc or crc, an entry whose
\* (dev, ino) had a cached payload when the call was made.
HasCached(i) ==
    /\ log[i].kind = "entry"
    /\ IsNewcLike(job.format)
    /\ MetadataId(log[i].md) \in DOMAIN log[i].cached

\* The reader of the entry the i-th call yielded holds the bytes that were
\* cached for its (dev, ino), and the call consumed the header, the name and
\* the name padding and nothing else.
ServedFromCache(i) ==
    /\ log[i].reader.type = "Slice"
    /\ log[i].reader.slice = log[i].cached[MetadataId(log[i].md)]
    /\ log[i].stop = log[i].start + HeaderLen(job.format) + AsLen(log[i].md.name_len)
                         + NamePad(AsLen(log[i].md.name_len), job.format)

\* While the entry of the last call is alive or dropped, the stream stands
\* where the call left it, and the bytes read from the entry with the bytes
\* its reader still holds are the cached ones.
LastLeftStream ==
    /\ a.pos = log[Len(log)].stop
    /\ live => cur \o entry.reader.slice = log[Len(log)].cached[MetadataId(log[Len(log)].md)]

\* C19 as stated: every entry of newc or crc whose (dev, ino) has a cached
\* payload is served the cached bytes, and no payload byte of the stream is
\* consumed for it.
C19_CachedServed ==
    /\ \A i \in 1..Len(log) : HasCached(i) => ServedFromCache(i)
    /\ (log # <<>> /\ phase = "read" /\ HasCached(Len(log))) => LastLeftStream

\* C19 for the entries that carry no payload of their own: an entry of newc
\* or crc with file_size 0 whose (dev, ino) has a cached payload is served
\* the cached bytes, and no byte of the stream after its name padding is
\* consumed for it, whether it is read or dropped.  An entry with nlink > 1
\* and a payload of its own is read from the stream instead, and its payload
\* becomes the cached one.
C19_EmptySecondaryServed ==
    /\ \A i \in 1..Len(log) :
           HasCached(i) =>
               IF IsZero(log[i].md.file_size) THEN ServedFromCache(i)
               ELSE /\ log[i].reader.type = "Slice"
                    /\ log[i].reader.slice
                           = SubSeq(a.stream, log[i].stop - AsLen(log[i].md.file_size) + 1,
                                    log[i].stop)
    /\ (/\ log # <<>> /\ phase = "read" /\ HasCached(Len(log))
        /\ IsZero(log[Len(log)].md.file_size)) => LastLeftStream

\* C19 happens: in a newc archive the second name of a file, an entry of
\* file_size 0, was served the three cached bytes of the first, and all of
\* them were read.
C19_Witness ==
    /\ job.name = "links" /\ job.format = "Newc"
    /\ Len(log) = 2 /\ live
    /\ HasCached(2)
    /\ cur = Xyz

\* The largest name_len of bin (0xFFFF) and of odc (0o777777).
NameLimit(format) == IF IsBin(format) THEN 65535 ELSE 262143

\* The length of the path plus one (the NUL) exceeds the largest name_len of
\* the format.  Every length of the model is below the 0xFFFFFFFF of newc
\* and crc.
TooLong(len, format) == ~IsNewcLike(format) /\ len + 1 > NameLimit(format)

\* C20: append_entry fails without writing a byte exactly when the length of
\* the inner path plus one exceeds the largest name_len of the format; a
\* call that fails for another reason has written to the sink, and the
\* header a call writes in full carries name_len = length + 1.
C20_NameLenEnforced ==
    phase # "write" =>
        /\ (~cw /\ b.writer = <<>>) <=> TooLong(cm.len, cf)
        /\ (phase = "decoded" /\ ~TooLong(cm.len, cf)) =>
               /\ cw => cr.kind = "some"
               /\ cr.kind = "some" => cr.md.name_len = U32(cm.len + 1)

\* C20 happens: a path of 0xFFFF bytes was refused in bin without a byte
\* written.
C20_Witness ==
    /\ phase = "decoded"
    /\ cf = "BinLE"
    /\ cm = [len |-> 65535, input |-> 1]
    /\ ~cw
    /\ b.writer = <<>>

\* C21: a call of append_entry whose header carries a file_size above zero
\* fails when the data source holds another number of bytes than file_size;
\* after every call that succeeds, exactly file_size bytes of the data and
\* the payload padding follow the name and its padding.
C21_PayloadCount ==
    \A k \in 1..Len(log) :
        /\ (/\ ~IsZero(log[k].md.file_size)
            /\ U64(Len(Inputs[log[k].input].data)) # log[k].md.file_size) => ~log[k].ok
        /\ log[k].ok =>
               WireAfterName(k)
                   = SubSeq(Inputs[log[k].input].data, 1, AsLen(log[k].md.file_size))
                         \o Zeros(FewestPad(AsLen(log[k].md.file_size), AlignOf(b.format)))

\* C21 happens: a call with three bytes of data and file_size 2 failed, and
\* a call with three bytes of data and file_size 3 succeeded after it.
C21_Witness ==
    /\ Len(log) = 2
    /\ log[1].input = 6 /\ ~log[1].ok
    /\ log[2].input = 1 /\ log[2].ok
    /\ b.format = "Odc"

\* The mode of the header the i-th call of read_entry decoded.
HeaderMode(i) == read_some(a.stream, log[i].start).md.mode

\* C22: in every format, read_entry returns an error for an entry other than
\* the trailer whose mode carries a file type that is none of the seven.
C22_InvalidTypeRejected ==
    \A i \in 1..Len(log) :
        (/\ log[i].header = "some"
         /\ log[i].kind # "none"
         /\ FileTypeNew(HeaderMode(i)) = "Invalid") => log[i].kind = "err"

\* The inode at which the k-th entry unpack has met is materialized, 0 when
\* it is not.
SeenNode(k) == NodeAt(fs, 1, UnpackPath(u.seen[k]))

\* C23: two entries of an archive that are materialized at two paths are one
\* file only if they have the same (dev, ino); entries that differ in dev or
\* in ino are materialized as files of their own.
C23_LinkedBySameId ==
    \A i, j \in 1..Len(u.seen) :
        (/\ i < j
         /\ UnpackPath(u.seen[i]) # UnpackPath(u.seen[j])
         /\ SeenNode(i) # 0
         /\ SeenNode(i) = SeenNode(j)) => MetadataId(u.seen[i].md) = MetadataId(u.seen[j].md)

\* C24: in newc and crc, every call that writes a hard-link secondary (a
\* (dev, ino) an earlier call was made with, file_size forced to 0) comes
\* after a call that succeeded, was the first with that (dev, ino), and wrote
\* an entry with the same assigned inode number; calls that fail may lie
\* between.
C24_SecondaryAfterPrimary ==
    \A k \in 1..Len(log) :
        (IsNewcLike(b.format) /\ log[k].ok /\ Seen(k)) =>
            /\ log[PrimaryOf(k)].ok
            /\ log[PrimaryOf(k)].md.ino = log[k].md.ino


\* The distinct (dev, ino) pairs of the first k calls.
IdsSeen(k) == {MetadataId(Inputs[log[j].input].md) : j \in 1..k}

\* C25: the ino a call writes is the number of distinct (dev, ino) pairs
\* that came before the first call with its pair (0, 1, 2, ... in order of
\* first appearance); two written entries carry the same ino exactly when
\* they were given the same (dev, ino); the next free number is the number
\* of distinct pairs seen.
C25_InodesSequential ==
    /\ \A k \in 1..Len(log) :
           log[k].ok => log[k].md.ino = U64(Cardinality(IdsSeen(PrimaryOf(k) - 1)))
    /\ \A j, k \in 1..Len(log) :
           (log[j].ok /\ log[k].ok) =>
               ((log[j].md.ino = log[k].md.ino)
                    <=> (MetadataId(Inputs[log[j].input].md)
                             = MetadataId(Inputs[log[k].input].md)))
    /\ b.max_inode = Cardinality(IdsSeen(Len(log)))

C25_Witness ==
    /\ Len(log) = 2
    /\ log[1].input = 4 /\ log[1].ok
    /\ log[2].input = 1 /\ log[2].ok
    /\ log[2].md.ino = U64(1)
    /\ b.max_inode = 2


\* The distinct long device ids of the first k calls, and the first call
\* made with the device id of the k-th call.
DevsSeen(k) == {Inputs[log[j].input].md.dev : j \in 1..k}

FirstWithDev(k) ==
    CHOOSE j \in 1..k :
        /\ Inputs[log[j].input].md.dev = Inputs[log[k].input].md.dev
        /\ \A i \in 1..(j - 1) : Inputs[log[i].input].md.dev # Inputs[log[k].input].md.dev

\* C26: in odc and bin the dev an entry is written with is the number of
\* distinct long device ids that came before the first appearance of its
\* own, so equal long ids give equal short ids and distinct ones distinct
\* ones; in newc and crc the dev is written as given and the device table
\* stays empty.
C26_DeviceRemap ==
    IF IsNewcLike(b.format)
    THEN /\ b.devices = <<>>
         /\ b.max_dev = 0
         /\ \A k \in 1..Len(log) :
                log[k].ok => /\ log[k].md.dev = Inputs[log[k].input].md.dev
                             /\ WireHeader(k).md.dev = Inputs[log[k].input].md.dev
    ELSE /\ b.max_dev = Cardinality(DevsSeen(Len(log)))
         /\ DOMAIN b.devices = DevsSeen(Len(log))
         /\ \A k \in 1..Len(log) :
                log[k].ok =>
                    /\ log[k].md.dev = U64(Cardinality(DevsSeen(FirstWithDev(k) - 1)))
                    /\ WireHeader(k).md.dev = log[k].md.dev
         /\ \A j, k \in 1..Len(log) :
                (log[j].ok /\ log[k].ok) =>
                    ((log[j].md.dev = log[k].md.dev)
                         <=> (Inputs[log[j].input].md.dev = Inputs[log[k].input].md.dev))

C26_Witness ==
    /\ b.format = "Odc"
    /\ Len(log) = 2
    /\ log[1].input = 1 /\ log[1].ok
    /\ log[2].input = 4 /\ log[2].ok
    /\ WireHeader(2).md.dev = U64(1)


\* The name the k-th call of the builder with an editor was made with, and
\* whether fix_header refuses it.
EditorPath(k) == IF log[k].long THEN LongPath(65535) ELSE Inputs[log[k].input].path
NameRefused(k) == ~Fits(U64(Len(EditorPath(k)) + 1), MaxNameBits(b.format))

\* the Metadata the editor was handed: remapped, name_len set, and in crc
\* the sum of the payload of a regular file that is no secondary
EditorSaw(k, c) ==
    /\ c.md.ino = U64(Cardinality(IdsSeen(PrimaryOf(k) - 1)))
    /\ c.md.dev = IF IsNewcLike(b.format) THEN Inputs[log[k].input].md.dev
                  ELSE U64(Cardinality(DevsSeen(FirstWithDev(k) - 1)))
    /\ c.md.name_len = U32(Len(EditorPath(k)) + 1)
    /\ (b.format = "Crc" /\ is_file(c.md) /\ ~Seen(k)) =>
           c.md.check = CrcSum(Inputs[log[k].input].data)
    /\ c.md.uid = Inputs[log[k].input].md.uid

\* C27: an editor that keeps its calls has received one call for each
\* append_entry whose name passed the length check, and none for the others
\* or for the trailer; the call was made with the remapped Metadata, the
\* name_len and the checksum, when no byte of the entry was on the writer;
\* the header written and the Metadata returned carry the editor's owner;
\* a call the editor refuses writes nothing.
C27_EditorOncePerEntry ==
    b.metadata_editor.kind # "DoNotEditMetadata" =>
        /\ \A k \in 1..Len(log) :
               /\ log[k].before = IF k = 1 THEN 0 ELSE log[k - 1].after
               /\ IF NameRefused(k)
                  THEN log[k].after = log[k].before /\ ~log[k].ok
                  ELSE /\ log[k].after = log[k].before + 1
                       /\ b.metadata_editor.calls[log[k].after].at = log[k].start
                       /\ EditorSaw(k, b.metadata_editor.calls[log[k].after])
               /\ (b.metadata_editor.kind = "Refuse") =>
                      (~log[k].ok /\ log[k].stop = log[k].start)
               /\ (b.metadata_editor.kind = "SetOwner" /\ log[k].ok) =>
                      /\ log[k].md.uid = U32(0) /\ log[k].md.gid = U32(0)
                      /\ WireHeader(k).md.uid = U32(0) /\ WireHeader(k).md.gid = U32(0)
        /\ Len(b.metadata_editor.calls) = IF log = <<>> THEN 0 ELSE log[Len(log)].after

C27_Witness ==
    /\ b.metadata_editor.kind = "SetOwner"
    /\ b.format = "Crc"
    /\ phase = "finished"
    /\ Len(log) = 2
    /\ log[1].input = 1 /\ log[1].ok /\ WireHeader(1).md.uid = U32(0)
    /\ log[2].input = 2 /\ log[2].ok
    /\ Len(b.metadata_editor.calls) = 2


\* C28: a header written by Metadata::write in odc, newc or bin and decoded
\* again has check = 0, whatever check the Metadata written held (the check
\* field on the wire of such a header is zero, and so is the one decoded).
C28_CheckOnlyInCrc ==
    (phase = "decoded" /\ cf # "Crc" /\ cr.kind = "some") => IsZero(cr.md.check)


\* C29: when the second name of a hard-link group (a regular file) carries
\* the payload and the first carried none, unpack succeeds whatever
\* permission bits the file has: both names are one file that holds the
\* payload and has the mode of the header again (a target without the
\* owner-write bit was made writable for the write).
C29_LaterPayloadReplaces ==
    (job \in {"links-last", "links-last-sticky"} /\ phase \in {"perms", "done", "failed"}) =>
        /\ phase # "failed"
        /\ TargetInode(<<98>>) # 0
        /\ TargetInode(<<98>>) = TargetInode(<<97>>)
        /\ fs[TargetInode(<<98>>)].data = Xyz
        /\ fs[TargetInode(<<98>>)].mode = file_mode(u.seen[2].md.mode)


\* The k-th entry unpack saw is a regular file it created itself: its path
\* lies in the target and no earlier entry had its inode number.
CreatedAsFile(k) ==
    /\ FileTypeNew(u.seen[k].md.mode) = "Regular"
    /\ SeenNode(k) # 0
    /\ \A j \in 1..(k - 1) : u.seen[j].md.ino # u.seen[k].md.ino

\* C30: when unpack has returned success, every regular file it created
\* was given as many bytes as the file_size of its header (copy_to returned
\* file_size).
C30_ShortPayloadIsError ==
    phase \in {"perms", "done"} =>
        \A k \in 1..Len(u.seen) :
            CreatedAsFile(k) => U64(Len(u.seen[k].bytes)) = u.seen[k].md.file_size


\* C31: an archive with a directory and a file inside it is unpacked
\* without error in either order of the two entries: every entry has its
\* node, and at the end every directory has the mode of its header.
C31_EitherOrder ==
    (job \in {"deep", "depth-first"} /\ Unpacked) =>
        /\ phase = "done"
        /\ \A k \in 1..Len(u.seen) :
               /\ SeenNode(k) # 0
               /\ FileTypeNew(u.seen[k].md.mode) = "Directory" =>
                      fs[SeenNode(k)].mode = file_mode(u.seen[k].md.mode)


\* C32: two entries of different paths that unpack materialized are one
\* file only if the later one has nlink > 1 and is no directory; a regular
\* file with nlink of 0 or 1 holds its own payload and a directory entry is
\* a directory.
C32_LinkNeedsNlink ==
    /\ \A j, k \in 1..Len(u.seen) :
           (/\ j < k
            /\ UnpackPath(u.seen[j]) # UnpackPath(u.seen[k])
            /\ SeenNode(k) # 0
            /\ SeenNode(j) = SeenNode(k)) =>
               /\ ~Fits(u.seen[k].md.nlink, 1)
               /\ FileTypeNew(u.seen[k].md.mode) # "Directory"
    /\ \A k \in 1..Len(u.seen) :
           (SeenNode(k) # 0 /\ Fits(u.seen[k].md.nlink, 1)) =>
               /\ FileTypeNew(u.seen[k].md.mode) = "Regular" =>
                      fs[SeenNode(k)].data = u.seen[k].bytes
               /\ FileTypeNew(u.seen[k].md.mode) = "Directory" =>
                      fs[SeenNode(k)].kind = "Directory"


IsDigitOf(kind, c) ==
    IF kind = "hex_8"
    THEN (c >= 48 /\ c <= 57) \/ (c >= 97 /\ c <= 102) \/ (c >= 65 /\ c <= 70)
    ELSE c >= 48 /\ c <= 55

\* C34: read_octal_6, read_octal_11 and read_hex_8 succeed on a field
\* exactly when every byte of it is a digit of the base of the field.
C34_OnlyDigits ==
    phase = "decoded" => (cr.ok <=> \A k \in 1..Len(cw.out) : IsDigitOf(cf, cw.out[k]))


\* C35: a 32-bit binary field holds the high 16-bit half of the value and
\* then the low half, each half in the byte order of the field (bytes 2, 3,
\* 0, 1 of the value in little-endian, bytes 3, 2, 1, 0 in big-endian,
\* counted from the least significant), and the read function returns the
\* value from these four bytes.
C35_HighHalfFirst ==
    (cf \in {"u32_le", "u32_be"} /\ phase # "write") =>
        /\ cw.ok
        /\ cw.out = IF cf = "u32_le"
                    THEN <<Digit(cm, 2, 8), Digit(cm, 3, 8), Digit(cm, 0, 8), Digit(cm, 1, 8)>>
                    ELSE <<Digit(cm, 3, 8), Digit(cm, 2, 8), Digit(cm, 1, 8), Digit(cm, 0, 8)>>
        /\ phase = "decoded" => (cr.ok /\ cr.val = cm)

C35_Witness ==
    /\ phase = "decoded"
    /\ cf = "u32_be"
    /\ cm = U32(19088743)
    /\ cw.out = <<1, 35, 69, 103>>
    /\ cr.val = cm

====
